---- MODULE Spec2Model ----
(***************************************************************************)
(* Model of the sorter ranking engine: the reducer (src/src/reducer.py),   *)
(* the append-only log (src/src/storage.py) and the webhook, query and     *)
(* startup-replay handlers (src/src/main.py).                              *)
(*                                                                         *)
(* Representation.  Python None is the string "None" for names and bodies  *)
(* and the number NoTs for a timestamp.  A millisecond timestamp and its   *)
(* decimal string are the same natural number; where strings are ordered   *)
(* (file names) the order is computed on the decimal digits.               *)
(***************************************************************************)
EXTENDS Integers, Sequences, FiniteSets, TLC

VARIABLES
    reducer,    \* the Reducer instance of main.py (state and per-document context)
    outcome,    \* what the last process_document call gave its caller: "none" or the error raised
    files,      \* the data directory: file name -> file content
    clock,      \* time.time() in milliseconds
    lock,       \* reducer_lock: [locked, waiters]
    procs,      \* the request handlers in flight: handler id -> its frame
    startup,    \* the lifespan replay loop: [pc, todo, count, errors]
    email_count,\* GLOBAL_STATE["email_count"]
    ingested    \* number of webhook requests received so far

vars == <<reducer, outcome, files, clock, lock, procs, startup, email_count, ingested>>

None == "None"
NoTs == 0 - 1
NoFile == [kind |-> "none", ts |-> NoTs, slug |-> None]

----------------------------------------------------------------------------
(* Bounds *)

MaxStmts == 2       \* statements per document in the reducer specification
MaxCalls == 2       \* process_document calls in the reducer specification
MaxIngests == 2     \* webhook requests received
MaxTime == 2        \* last millisecond of the clock
NumHandlers == 2    \* request handlers in flight at once
MaxLogTs == 1       \* last timestamp of the files found at startup

----------------------------------------------------------------------------
(* AST nodes of src/src/parser.py *)

Hashtag(name) == [type |-> "Hashtag", name |-> name]
Item(title, body) == [type |-> "Item", title |-> title, body |-> body]
AttributeDecl(names) == [type |-> "Attributes", names |-> names]
Vote(item1, item2, rl, rr, explanation) ==
    [type |-> "Vote", item1 |-> item1, item2 |-> item2,
     ratio_left |-> rl, ratio_right |-> rr, explanation |-> explanation]
Email(address) == [type |-> "Email", address |-> address]

----------------------------------------------------------------------------
(* Records of src/src/reducer.py *)

ItemRecord(title, body, hashtags, created_by, timestamp) ==
    [title |-> title, body |-> body, hashtags |-> hashtags,
     created_by |-> created_by, timestamp |-> timestamp]

VoteRecord(item1, item2, rl, rr, attribute, explanation, user_email, timestamp, source_filename) ==
    [item1 |-> item1, item2 |-> item2, ratio_left |-> rl, ratio_right |-> rr,
     attribute |-> attribute, explanation |-> explanation, user_email |-> user_email,
     timestamp |-> timestamp, source_filename |-> source_filename]

\* an empty dict: a function on the keys present
EmptyDict == [x \in {} |-> None]

\* State()
State == [items |-> EmptyDict, votes |-> <<>>, emails |-> <<>>]

\* Reducer.__init__
NewReducer ==
    [state |-> State, current_hashtag |-> None, current_attribute |-> None,
     current_user_email |-> None, current_source_filename |-> NoFile]

Ok(r) == [r |-> r, err |-> "none"]
Raise(r, kind) == [r |-> r, err |-> kind]

\* d[k] = v on a dict
DictSet(d, k, v) == [x \in (DOMAIN d) \cup {k} |-> IF x = k THEN v ELSE d[x]]

InSeq(x, s) == \E i \in 1..Len(s) : s[i] = x

_process_hashtag(r, hashtag) == Ok([r EXCEPT !.current_hashtag = hashtag.name])

\* _process_item without the hashtag-context check
_process_item_no_context_check(r, item, timestamp) ==
    IF item.title \in DOMAIN r.state.items
    THEN IF item.body # None /\ item.body # ""
         THEN Raise(r, "ImmutableBody")
         ELSE Ok([r EXCEPT !.state.items[item.title].hashtags = @ \cup {r.current_hashtag}])
    ELSE Ok([r EXCEPT !.state.items =
                DictSet(@, item.title,
                        ItemRecord(item.title, item.body, {r.current_hashtag},
                                   r.current_user_email, timestamp))])

\* _process_item that stores the body of a redeclaration instead of raising
_process_item_overwrite(r, item, timestamp) ==
    IF r.current_hashtag = None
    THEN Raise(r, "MissingHashtagContext")
    ELSE IF item.title \in DOMAIN r.state.items
    THEN IF item.body # None /\ item.body # ""
         THEN Ok([r EXCEPT !.state.items[item.title].body = item.body,
                           !.state.items[item.title].hashtags = @ \cup {r.current_hashtag}])
         ELSE Ok([r EXCEPT !.state.items[item.title].hashtags = @ \cup {r.current_hashtag}])
    ELSE Ok([r EXCEPT !.state.items =
                DictSet(@, item.title,
                        ItemRecord(item.title, item.body, {r.current_hashtag},
                                   r.current_user_email, timestamp))])

\* _process_item that builds a new record when the title is declared again
_process_item_recreate(r, item, timestamp) ==
    IF r.current_hashtag = None
    THEN Raise(r, "MissingHashtagContext")
    ELSE IF item.title \in DOMAIN r.state.items /\ item.body # None /\ item.body # ""
    THEN Raise(r, "ImmutableBody")
    ELSE Ok([r EXCEPT !.state.items =
                DictSet(@, item.title,
                        ItemRecord(item.title, item.body, {r.current_hashtag},
                                   r.current_user_email, timestamp))])

\* _process_item that replaces the hashtags of a title declared again
_process_item_retag(r, item, timestamp) ==
    IF r.current_hashtag = None
    THEN Raise(r, "MissingHashtagContext")
    ELSE IF item.title \in DOMAIN r.state.items
    THEN IF item.body # None /\ item.body # ""
         THEN Raise(r, "ImmutableBody")
         ELSE Ok([r EXCEPT !.state.items[item.title].hashtags = {r.current_hashtag}])
    ELSE Ok([r EXCEPT !.state.items =
                DictSet(@, item.title,
                        ItemRecord(item.title, item.body, {r.current_hashtag},
                                   r.current_user_email, timestamp))])

_process_item(r, item, timestamp) ==
    IF r.current_hashtag = None
    THEN Raise(r, "MissingHashtagContext")
    ELSE IF item.title \in DOMAIN r.state.items
    THEN IF item.body # None /\ item.body # ""
         THEN Raise(r, "ImmutableBody")
         ELSE Ok([r EXCEPT !.state.items[item.title].hashtags = @ \cup {r.current_hashtag}])
    ELSE Ok([r EXCEPT !.state.items =
                DictSet(@, item.title,
                        ItemRecord(item.title, item.body, {r.current_hashtag},
                                   r.current_user_email, timestamp))])

\* _process_attributes that takes the first name of the declaration
_process_attributes_first(r, attributes) ==
    IF Len(attributes.names) > 0
    THEN Ok([r EXCEPT !.current_attribute = attributes.names[1]])
    ELSE Ok(r)

_process_attributes(r, attributes) ==
    IF Len(attributes.names) > 0
    THEN Ok([r EXCEPT !.current_attribute = attributes.names[Len(attributes.names)]])
    ELSE Ok(r)

\* _process_vote without the zero-ratio check
_process_vote_no_ratio_check(r, vote, timestamp) ==
    IF r.current_attribute = None
    THEN Raise(r, "MissingAttributeContext")
    ELSE IF vote.item1 \notin DOMAIN r.state.items
    THEN Raise(r, "UnknownItem")
    ELSE IF vote.item2 \notin DOMAIN r.state.items
    THEN Raise(r, "UnknownItem")
    ELSE Ok([r EXCEPT !.state.votes =
                Append(@, VoteRecord(vote.item1, vote.item2, vote.ratio_left,
                                     vote.ratio_right, r.current_attribute,
                                     vote.explanation, r.current_user_email,
                                     timestamp, r.current_source_filename))])

\* _process_vote that checks the ratios before the items
_process_vote_ratio_first(r, vote, timestamp) ==
    IF r.current_attribute = None
    THEN Raise(r, "MissingAttributeContext")
    ELSE IF vote.ratio_left = 0 \/ vote.ratio_right = 0
    THEN Raise(r, "ZeroRatio")
    ELSE IF vote.item1 \notin DOMAIN r.state.items
    THEN Raise(r, "UnknownItem")
    ELSE IF vote.item2 \notin DOMAIN r.state.items
    THEN Raise(r, "UnknownItem")
    ELSE Ok([r EXCEPT !.state.votes =
                Append(@, VoteRecord(vote.item1, vote.item2, vote.ratio_left,
                                     vote.ratio_right, r.current_attribute,
                                     vote.explanation, r.current_user_email,
                                     timestamp, r.current_source_filename))])

\* _process_vote that does not look for its items in state.items
_process_vote_no_item_check(r, vote, timestamp) ==
    IF r.current_attribute = None
    THEN Raise(r, "MissingAttributeContext")
    ELSE IF vote.ratio_left = 0 \/ vote.ratio_right = 0
    THEN Raise(r, "ZeroRatio")
    ELSE Ok([r EXCEPT !.state.votes =
                Append(@, VoteRecord(vote.item1, vote.item2, vote.ratio_left,
                                     vote.ratio_right, r.current_attribute,
                                     vote.explanation, r.current_user_email,
                                     timestamp, r.current_source_filename))])

_process_vote(r, vote, timestamp) ==
    IF r.current_attribute = None
    THEN Raise(r, "MissingAttributeContext")
    ELSE IF vote.item1 \notin DOMAIN r.state.items
    THEN Raise(r, "UnknownItem")
    ELSE IF vote.item2 \notin DOMAIN r.state.items
    THEN Raise(r, "UnknownItem")
    ELSE IF vote.ratio_left = 0 \/ vote.ratio_right = 0
    THEN Raise(r, "ZeroRatio")
    ELSE Ok([r EXCEPT !.state.votes =
                Append(@, VoteRecord(vote.item1, vote.item2, vote.ratio_left,
                                     vote.ratio_right, r.current_attribute,
                                     vote.explanation, r.current_user_email,
                                     timestamp, r.current_source_filename))])

_process_email(r, email) ==
    IF InSeq(email.address, r.state.emails)
    THEN Ok(r)
    ELSE Ok([r EXCEPT !.state.emails = Append(@, email.address)])

\* the isinstance dispatch of the loop body of process_document
ProcessStatement(r, statement, timestamp) ==
    CASE statement.type = "Hashtag" -> _process_hashtag(r, statement)
      [] statement.type = "Item" -> _process_item(r, statement, timestamp)
      [] statement.type = "Attributes" -> _process_attributes(r, statement)
      [] statement.type = "Vote" -> _process_vote(r, statement, timestamp)
      [] statement.type = "Email" -> _process_email(r, statement)

\* the for loop of process_document: the state is mutated in place, so a
\* raise leaves the mutations of the statements before it
RECURSIVE ProcessStatements(_, _, _, _)
ProcessStatements(r, statements, i, timestamp) ==
    IF i > Len(statements)
    THEN Ok(r)
    ELSE LET step == ProcessStatement(r, statements[i], timestamp)
         IN IF step.err # "none"
            THEN step
            ELSE ProcessStatements(step.r, statements, i + 1, timestamp)

\* process_document that keeps the hashtag and attribute context of the
\* document before
process_document_no_reset(r, doc, timestamp, user_email, source_filename) ==
    ProcessStatements(
        [r EXCEPT !.current_user_email = user_email,
                  !.current_source_filename = source_filename],
        doc.statements, 1, timestamp)

process_document(r, doc, timestamp, user_email, source_filename) ==
    ProcessStatements(
        [r EXCEPT !.current_hashtag = None, !.current_attribute = None,
                  !.current_user_email = user_email,
                  !.current_source_filename = source_filename],
        doc.statements, 1, timestamp)

----------------------------------------------------------------------------
(* Email text and its parse (src/src/parser.py).  A text is a sequence of  *)
(* lines.  A line is prose (its first non-blank character is no command    *)
(* sigil), the prose line "---", a sigil line that the grammar rejects, or *)
(* a sigil line holding one statement.  A line holding an email address   *)
(* is a statement of the grammar whose first character is no sigil.        *)

Prose == [type |-> "Prose"]
Dashes == [type |-> "Dashes"]
Bad == [type |-> "Bad"]
\* a prose line that ends in a carriage return (the text has "\r\n" there)
ProseCR == [type |-> "ProseCR"]

\* the line filter of parse_lines: stripped[0] in "#:/@!"
HasSigil(line) == line.type \notin {"Prose", "ProseCR", "Dashes", "Email"}

Document(statements) == [statements |-> statements]

\* parse_lines: keep the sigil lines, parse what is left; LarkError when a
\* kept line is not in the grammar
parse_lines(text) ==
    LET filtered_lines == SelectSeq(text, HasSigil)
    IN IF \E i \in 1..Len(filtered_lines) : filtered_lines[i].type = "Bad"
       THEN [err |-> "LarkError", doc |-> Document(<<>>)]
       ELSE [err |-> "none", doc |-> Document(filtered_lines)]

----------------------------------------------------------------------------
(* parse_lines on the characters of a text (src/src/parser.py).  A text is *)
(* a sequence of symbols: "{", "}", "NL" (a newline), " ", "FENCE" (three   *)
(* backticks), "w" (a word of                                              *)
(* prose or of a body) and the heads of Heads, each the characters of one  *)
(* statement without its body.  A head starts with a command sigil; no     *)
(* other symbol does.  "u@h.io" is an email address, a statement of the    *)
(* grammar that starts with a letter.                                      *)

Heads == {"#a", "/x", "/y", ":p", "/x>y"}

\* the tokens "__BLOCK_<uuid>__" in the order they are drawn
Tokens == <<"__BLOCK_1__", "__BLOCK_2__", "__BLOCK_3__", "__BLOCK_4__", "__BLOCK_5__",
            "__BLOCK_6__">>

\* text.startswith(marker, i), with positions from 1
startswith(text, marker, i) ==
    /\ i + Len(marker) - 1 <= Len(text)
    /\ SubSeq(text, i, i + Len(marker) - 1) = marker

\* the while loop of BlockMasker.mask and the statements after it; masker
\* is the replacements dict, and the result is [text, replacements]
RECURSIVE MaskLoop(_, _, _, _, _, _, _, _, _)
MaskLoop(masker, text, open_marker, close_marker, i, depth, start_idx, current_idx, result_parts) ==
    IF i > Len(text)
    THEN [text |-> result_parts \o SubSeq(text, current_idx, Len(text)),
          replacements |-> masker]
    ELSE IF depth > 0 /\ startswith(text, close_marker, i)
    THEN LET depth1 == IF open_marker = close_marker THEN 0 ELSE depth - 1
             i1 == i + Len(close_marker)
             token == Tokens[Cardinality(DOMAIN masker) + 1]
         IN IF depth1 = 0
            THEN MaskLoop(DictSet(masker, token, SubSeq(text, start_idx, i1 - 1)), text,
                          open_marker, close_marker, i1, 0, start_idx, i1,
                          Append(result_parts, token))
            ELSE MaskLoop(masker, text, open_marker, close_marker, i1, depth1, start_idx,
                          current_idx, result_parts)
    ELSE IF startswith(text, open_marker, i)
    THEN MaskLoop(masker, text, open_marker, close_marker, i + Len(open_marker),
                  IF open_marker = close_marker THEN 1 ELSE depth + 1,
                  IF depth = 0 THEN i ELSE start_idx,
                  current_idx,
                  IF depth = 0 THEN result_parts \o SubSeq(text, current_idx, i - 1)
                  ELSE result_parts)
    ELSE MaskLoop(masker, text, open_marker, close_marker, i + 1, depth, start_idx,
                  current_idx, result_parts)

\* BlockMasker.mask
mask(masker, text, open_marker, close_marker) ==
    IF text = <<>> THEN [text |-> text, replacements |-> masker]
    ELSE MaskLoop(masker, text, open_marker, close_marker, 1, 0, 0, 1, <<>>)

\* BlockMasker.unmask: every token gives way to its block until none is left
RECURSIVE unmask(_, _)
unmask(masker, text) ==
    IF text = <<>> THEN <<>>
    ELSE (IF Head(text) \in DOMAIN masker THEN unmask(masker, masker[Head(text)])
          ELSE <<Head(text)>>)
         \o unmask(masker, Tail(text))

\* line.lstrip()
RECURSIVE lstrip(_)
lstrip(line) ==
    IF line # <<>> /\ Head(line) \in {" ", "NL"} THEN lstrip(Tail(line)) ELSE line

\* str.strip() of a body
RECURSIVE strip(_)
strip(body) ==
    IF body # <<>> /\ body[Len(body)] \in {" ", "NL"}
    THEN strip(SubSeq(body, 1, Len(body) - 1))
    ELSE lstrip(body)

\* the node that the transformer builds for a statement: its head and, for
\* an item or a vote, its body (None is [present |-> FALSE])
Node(head, present, body) == [head |-> head, present |-> present, body |-> body]

\* EmailDSLParser.parse from position i: the grammar "start" with the
\* rules statement and body; white space between tokens is ignored, a
\* statement ends at a newline or at the end of the text
RECURSIVE parse(_, _, _)
parse(text, i, statements) ==
    LET skip(j, S) == CHOOSE k \in j..(Len(text) + 1) :
                          /\ \A m \in j..(k - 1) : text[m] \in S
                          /\ k <= Len(text) => text[k] \notin S
        at == skip(i, {" ", "NL"})
        brace == skip(at + 1, {" "})
        is_double == startswith(text, <<"{", "{">>, brace)
        is_single == ~is_double /\ startswith(text, <<"{">>, brace)
        \* BODY_TEXT_SINGLE: the longest run without braces
        single_end == skip(brace + 1, {" ", "NL", "w", "u@h.io"} \cup Heads \cup
                                         {Tokens[k] : k \in 1..Len(Tokens)})
        \* BODY_TEXT_DOUBLE: the shortest non-empty run before "}}"
        closes == {e \in (brace + 3)..Len(text) : startswith(text, <<"}", "}">>, e)}
        double_end == CHOOSE e \in closes : \A f \in closes : e <= f
        failed == [err |-> "LarkError", doc |-> Document(<<>>)]
        \* after a statement: a newline or the end of the text
        next(j, node) ==
            LET k == skip(j, {" "})
            IN IF k <= Len(text) /\ text[k] # "NL" THEN failed
               ELSE parse(text, k, Append(statements, node))
    IN IF at > Len(text) THEN [err |-> "none", doc |-> Document(statements)]
       ELSE IF text[at] \notin Heads \cup {"u@h.io"} THEN failed
       ELSE IF is_double /\ text[at] \in {"/x", "/y", "/x>y"}
       THEN IF closes = {} THEN failed
            ELSE next(double_end + 2,
                      Node(text[at], TRUE, strip(SubSeq(text, brace + 2, double_end - 1))))
       ELSE IF is_single /\ text[at] \in {"/x", "/y", "/x>y"}
       THEN IF single_end = brace + 1 \/ ~startswith(text, <<"}">>, single_end) THEN failed
            ELSE next(single_end + 1,
                      Node(text[at], TRUE, strip(SubSeq(text, brace + 1, single_end - 1))))
       ELSE next(at + 1, Node(text[at], FALSE, <<>>))

\* EmailDSLParser.parse_lines on the characters
parse_lines_text(text) ==
    LET \* text.split("\n")
        RECURSIVE split(_, _)
        split(rest, line) ==
            IF rest = <<>> THEN <<line>>
            ELSE IF Head(rest) = "NL" THEN <<line>> \o split(Tail(rest), <<>>)
            ELSE split(Tail(rest), Append(line, Head(rest)))
        \* "\n".join(lines)
        RECURSIVE join(_)
        join(ls) ==
            IF ls = <<>> THEN <<>>
            ELSE IF Len(ls) = 1 THEN ls[1]
            ELSE ls[1] \o <<"NL">> \o join(Tail(ls))
        code == mask(EmptyDict, text, <<"FENCE">>, <<"FENCE">>)
        double == mask(code.replacements, code.text, <<"{", "{">>, <<"}", "}">>)
        single == mask(double.replacements, double.text, <<"{">>, <<"}">>)
        lines == split(single.text, <<>>)
        keep(line) == lstrip(line) # <<>> /\ Head(lstrip(line)) \in Heads
        filtered_text == join(SelectSeq(lines, keep))
        restored_text == unmask(single.replacements, filtered_text)
    IN parse(restored_text, 1, <<>>)

----------------------------------------------------------------------------
(* The log (src/src/storage.py).  A file name "<timestamp>+<slug>.sorter"  *)
(* is the record [kind, ts, slug]; the debug file of main.py is            *)
(* [kind |-> "debug", ...].  A file content is a sequence of lines.        *)

\* slugify(subject)
slugify(subject) ==
    CASE subject = "Alpha" -> "alpha"
      [] subject = "Zeta" -> "zeta"

\* position of a slug in string order
SlugRank(slug) == IF slug = "alpha" THEN 1 ELSE 2

SorterName(timestamp, slug) == [kind |-> "sorter", ts |-> timestamp, slug |-> slug]
DebugName(timestamp, from_email) == [kind |-> "debug", ts |-> timestamp, slug |-> from_email]

\* str(n): the decimal digits of a number
RECURSIVE Digits(_)
Digits(n) == IF n < 10 THEN <<n>> ELSE Digits(n \div 10) \o <<n % 10>>

\* string order of two digit strings, each followed by "+" (which sorts
\* before every digit)
RECURSIVE DigitsLess(_, _)
DigitsLess(s, t) ==
    IF s = <<>> THEN t # <<>>
    ELSE IF t = <<>> THEN FALSE
    ELSE IF Head(s) # Head(t) THEN Head(s) < Head(t)
    ELSE DigitsLess(Tail(s), Tail(t))

\* string order of two file names "<timestamp>+<slug>.sorter"
NameLess(f, g) ==
    \/ DigitsLess(Digits(f.ts), Digits(g.ts))
    \/ f.ts = g.ts /\ SlugRank(f.slug) < SlugRank(g.slug)

FromLine(v) == [type |-> "From", value |-> v]
TimestampLine(v) == [type |-> "Timestamp", value |-> v]

\* save_email as postmark_webhook calls it: the timestamp is the one the
\* handler generated (main.py:706, 718-722) where storage.py:35 reads the
\* clock itself, and the file name is handed back.  Gives the directory
\* after the write and the file name.
save_email(dir, subject, body, from_email, timestamp) ==
    LET slug == slugify(subject)
        filename == SorterName(timestamp, slug)
        content_parts ==
            (IF from_email # None /\ from_email # "" THEN <<FromLine(from_email)>> ELSE <<>>)
            \o <<TimestampLine(timestamp), Dashes>> \o body
    IN [files |-> DictSet(dir, filename, content_parts), filename |-> filename]

\* index of the first "---" line of a content, 0 when there is none
RECURSIVE SeparatorIdx(_, _)
SeparatorIdx(lines, i) ==
    IF i > Len(lines) THEN 0
    ELSE IF lines[i].type = "Dashes" THEN i
    ELSE SeparatorIdx(lines, i + 1)

\* the value of the last header line of a type before the separator
RECURSIVE HeaderValue(_, _, _, _)
HeaderValue(lines, n, type, none) ==
    IF n = 0 THEN none
    ELSE IF lines[n].type = type THEN lines[n].value
    ELSE HeaderValue(lines, n - 1, type, none)

parse_email_file(content) ==
    LET separator_idx == SeparatorIdx(content, 1)
    IN IF separator_idx = 0
       THEN [body |-> content, from_email |-> None, timestamp |-> NoTs]
       ELSE [body |-> SubSeq(content, separator_idx + 1, Len(content)),
             from_email |-> HeaderValue(content, separator_idx - 1, "From", None),
             timestamp |-> HeaderValue(content, separator_idx - 1, "Timestamp", NoTs)]

\* DATA_DIR.glob("*.sorter")
SorterFiles(dir) == {f \in DOMAIN dir : f.kind = "sorter"}

\* sorted(...) of a set of file names
RECURSIVE Sorted(_)
Sorted(S) ==
    IF S = {} THEN <<>>
    ELSE LET m == CHOOSE f \in S : \A g \in S \ {f} : NameLess(f, g)
         IN <<m>> \o Sorted(S \ {m})

\* Path.read_text: the text mode of open() gives "\n" for every "\r\n"
read_text(content) ==
    [i \in 1..Len(content) |-> IF content[i] = ProseCR THEN Prose ELSE content[i]]

\* what stream_history yields for one file, with the file name that the
\* loop of lifespan unpacks as fourth element (main.py:90)
HistoryEntry(dir, f) ==
    LET e == parse_email_file(read_text(dir[f]))
    IN [body |-> e.body, from_email |-> e.from_email, timestamp |-> e.timestamp,
        filename |-> f]

\* list_emails: the file names newest first, each with the subject slug cut
\* out of its name
list_emails(dir) ==
    LET files_sorted == Sorted(SorterFiles(dir))
        n == Len(files_sorted)
    IN [k \in 1..n |-> [filename |-> files_sorted[n + 1 - k],
                         subject |-> files_sorted[n + 1 - k].slug]]

(* Paths.  A path is the sequence of its parts: a file name, the part      *)
(* "..", a directory name, or the root "/" as first part of an absolute    *)
(* path.  DATA_DIR is the relative path "data"; the process runs in /srv.  *)
DotDot == [kind |-> "dotdot", ts |-> NoTs, slug |-> None]
Root == [kind |-> "root", ts |-> NoTs, slug |-> None]
DirName(name) == [kind |-> "dir", ts |-> NoTs, slug |-> name]
DATA_DIR == <<DirName("data")>>
Cwd == <<Root, DirName("srv")>>

\* the file that the operating system opens for a path: relative paths
\* start at the working directory, ".." leaves a directory
RECURSIVE Resolved(_, _)
Resolved(parts, at) ==
    IF parts = <<>> THEN at
    ELSE IF Head(parts).kind = "root" THEN Resolved(Tail(parts), <<Root>>)
    ELSE IF Head(parts).kind = "dotdot"
    THEN Resolved(Tail(parts), IF Len(at) > 1 THEN SubSeq(at, 1, Len(at) - 1) ELSE at)
    ELSE Resolved(Tail(parts), Append(at, Head(parts)))

\* a file of the machine that is not in the data directory
OutsideFiles ==
    (Cwd \o <<SorterName(0, "zeta")>>) :> <<FromLine("u2"), TimestampLine(0), Dashes, Prose>>

\* the files of the machine: those of the data directory and the others
FileTree(dir) ==
    [path \in {Cwd \o DATA_DIR \o <<f>> : f \in DOMAIN dir} \cup DOMAIN OutsideFiles |->
        IF path \in DOMAIN OutsideFiles THEN OutsideFiles[path] ELSE dir[path[Len(path)]]]

\* get_email: None is [found |-> FALSE]
get_email(dir, filename) ==
    LET filepath == IF Head(filename).kind = "root" THEN filename ELSE DATA_DIR \o filename
        is_relative_to ==
            /\ Len(filepath) >= Len(DATA_DIR)
            /\ SubSeq(filepath, 1, Len(DATA_DIR)) = DATA_DIR
        target == Resolved(filepath, Cwd)
        exists == target \in DOMAIN FileTree(dir)
        suffix == IF filepath[Len(filepath)].kind = "sorter" THEN ".sorter" ELSE "other"
    IN IF ~is_relative_to THEN [found |-> FALSE]
       ELSE IF ~exists \/ suffix # ".sorter" THEN [found |-> FALSE]
       ELSE LET e == parse_email_file(read_text(FileTree(dir)[target]))
            IN [found |-> TRUE, body |-> e.body, from_email |-> e.from_email,
                timestamp |-> e.timestamp]

----------------------------------------------------------------------------
(* The handlers of src/src/main.py *)

Handlers == 1..NumHandlers
Users == {"u1", "u2"}
Subjects == {"Alpha", "Zeta"}

\* the texts a webhook request may carry
Bodies ==
    { <<>>,
      <<Prose, Dashes>>,
      <<Hashtag("a"), Bad>>,
      <<Prose, Hashtag("a"), Item("x", "t")>>,
      <<Hashtag("b"), Item("x", None)>>,
      <<Hashtag("a"), Item("x", "u")>>,
      <<Hashtag("a"), Item("y", None), AttributeDecl(<<"p">>), Vote("x", "y", 2, 1, None)>>,
      <<Hashtag("a"), Item("x", None), Item("y", None), AttributeDecl(<<"p">>),
        Vote("x", "y", 0, 1, None)>> }

PostmarkInboundEmail == [From : Users, Subject : Subjects, TextBody : Bodies]

NoEmail == [From |-> None, Subject |-> None, TextBody |-> <<>>]

\* a handler that is not running: its last response is kept in
\* has_dsl_commands, filename and parse_error_message
Frame(pc, kind, email, doc, has_dsl, timestamp, filename, message) ==
    [pc |-> pc, kind |-> kind, email |-> email, doc |-> doc,
     has_dsl_commands |-> has_dsl, current_timestamp |-> timestamp,
     filename |-> filename, parse_error_message |-> message]

IdleFrame == Frame("idle", "none", NoEmail, Document(<<>>), FALSE, NoTs, NoFile, "none")

Returned(kind, has_dsl, filename, message) ==
    Frame("done", kind, NoEmail, Document(<<>>), has_dsl, NoTs, filename, message)

\* has_dsl_commands that holds of every document
has_dsl_commands_always(doc) == TRUE

\* any(s is not None for s in doc.statements)
has_dsl_commands(doc) == Len(doc.statements) > 0

\* entering the block without looking at the lock
acquire_unguarded(l, h) == [lock |-> [l EXCEPT !.locked = TRUE], got |-> TRUE]

\* asyncio.Lock as used by "async with reducer_lock": the caller enters at
\* once when the lock is free and nobody waits, else it queues
acquire(l, h) ==
    IF ~l.locked /\ l.waiters = <<>>
    THEN [lock |-> [l EXCEPT !.locked = TRUE], got |-> TRUE]
    ELSE [lock |-> [l EXCEPT !.waiters = Append(@, h)], got |-> FALSE]

\* leaving the "async with" block
release(l) == [l EXCEPT !.locked = FALSE]

\* the except branch of postmark_webhook: the debug file
SaveDebug(dir, email, timestamp) ==
    DictSet(dir, DebugName(timestamp, email.From),
            <<[type |-> "Subject", value |-> email.Subject]>> \o email.TextBody)

\* postmark_webhook up to the first point where it can be suspended: parse,
\* then the no-command and parse-error exits, or the timestamp and the lock
WebhookReceive(h, email) ==
    /\ startup.pc = "serving"
    /\ procs[h].pc \in {"idle", "done"}
    /\ ingested < MaxIngests
    /\ ingested' = ingested + 1
    /\ LET p == parse_lines(email.TextBody)
           a == acquire(lock, h)
       IN IF p.err # "none"
          THEN /\ files' = SaveDebug(files, email, clock)
               /\ procs' = [procs EXCEPT ![h] = Returned("webhook", FALSE, NoFile, p.err)]
               /\ lock' = lock
          ELSE IF ~has_dsl_commands(p.doc)
          THEN /\ procs' = [procs EXCEPT ![h] = Returned("webhook", FALSE, NoFile, "none")]
               /\ UNCHANGED <<files, lock>>
          ELSE /\ procs' = [procs EXCEPT ![h] =
                              Frame(IF a.got THEN "locked" ELSE "wait", "webhook", email,
                                    p.doc, TRUE, clock, NoFile, "none")]
               /\ lock' = a.lock
               /\ files' = files
    /\ UNCHANGED <<reducer, outcome, clock, startup, email_count>>

\* a waiting handler is woken: the first waiter takes the released lock
Wake(h) ==
    /\ procs[h].pc = "wait"
    /\ ~lock.locked
    /\ lock.waiters # <<>>
    /\ Head(lock.waiters) = h
    /\ lock' = [locked |-> TRUE, waiters |-> Tail(lock.waiters)]
    /\ procs' = [procs EXCEPT ![h].pc = "locked"]
    /\ UNCHANGED <<reducer, outcome, files, clock, startup, email_count, ingested>>

\* postmark_webhook under the lock: the log append
WebhookSave(h) ==
    /\ procs[h].pc = "locked"
    /\ procs[h].kind = "webhook"
    /\ LET e == procs[h].email
           s == save_email(files, e.Subject, e.TextBody, e.From, procs[h].current_timestamp)
       IN /\ files' = s.files
          /\ procs' = [procs EXCEPT ![h].pc = "saved", ![h].filename = s.filename]
    /\ UNCHANGED <<reducer, outcome, clock, lock, startup, email_count, ingested>>

\* postmark_webhook under the lock: the reducer, then the lock is released
\* and the handler returns (after the debug file when the reducer raised)
WebhookReduce(h) ==
    /\ procs[h].pc = "saved"
    /\ LET f == procs[h]
           res == process_document(reducer, f.doc, f.current_timestamp, f.email.From, f.filename)
       IN /\ reducer' = res.r
          /\ outcome' = res.err
          /\ lock' = release(lock)
          /\ IF res.err = "none"
             THEN /\ email_count' = email_count + 1
                  /\ files' = files
             ELSE /\ email_count' = email_count
                  /\ files' = SaveDebug(files, f.email, clock)
          /\ procs' = [procs EXCEPT ![h] = Returned("webhook", TRUE, f.filename, res.err)]
    /\ UNCHANGED <<clock, startup, ingested>>

\* read_root, view_hashtag, compare_items or view_user up to the lock (the
\* four take it the same way)
QueryReceive(h) ==
    /\ startup.pc = "serving"
    /\ procs[h].pc \in {"idle", "done"}
    /\ LET a == acquire(lock, h)
       IN /\ procs' = [procs EXCEPT ![h] =
                          Frame(IF a.got THEN "locked" ELSE "wait", "query", NoEmail,
                                Document(<<>>), FALSE, NoTs, NoFile, "none")]
          /\ lock' = a.lock
    /\ UNCHANGED <<reducer, outcome, files, clock, startup, email_count, ingested>>

\* a query under the lock: it reads state.items and state.votes, releases
\* the lock and returns
QueryRead(h) ==
    /\ procs[h].pc = "locked"
    /\ procs[h].kind = "query"
    /\ lock' = release(lock)
    /\ procs' = [procs EXCEPT ![h] = IdleFrame]
    /\ UNCHANGED <<reducer, outcome, files, clock, startup, email_count, ingested>>

\* time passes
Tick ==
    /\ clock < MaxTime
    /\ clock' = clock + 1
    /\ UNCHANGED <<reducer, outcome, files, lock, procs, startup, email_count, ingested>>

----------------------------------------------------------------------------
(* lifespan: the startup replay *)

\* the body of the replay loop for one entry of stream_history
ReplayEntry(r, e) ==
    LET p == parse_lines(e.body)
    IN IF p.err # "none"
       THEN Raise(r, p.err)
       ELSE IF has_dsl_commands(p.doc)
       THEN process_document(r, p.doc, e.timestamp, e.from_email, e.filename)
       ELSE Ok(r)

\* stream_history is entered: the sorted list of the log files
StartupList ==
    /\ startup.pc = "start"
    /\ startup' = [startup EXCEPT !.pc = "replay", !.todo = Sorted(SorterFiles(files))]
    /\ UNCHANGED <<reducer, outcome, files, clock, lock, procs, email_count, ingested>>

\* a replay loop that an error ends
ReplayStepAbort ==
    /\ startup.pc = "replay"
    /\ startup.todo # <<>>
    /\ LET res == ReplayEntry(reducer, HistoryEntry(files, Head(startup.todo)))
       IN /\ reducer' = res.r
          /\ outcome' = res.err
          /\ startup' = [startup EXCEPT !.todo = IF res.err # "none" THEN <<>> ELSE Tail(@),
                                        !.count = @ + 1,
                                        !.errors = IF res.err # "none" THEN @ + 1 ELSE @]
    /\ UNCHANGED <<files, clock, lock, procs, email_count, ingested>>

\* the whole replay loop of lifespan over a list of log files
RECURSIVE ReplayAll(_, _, _)
ReplayAll(r, dir, todo) ==
    IF todo = <<>> THEN r
    ELSE ReplayAll(ReplayEntry(r, HistoryEntry(dir, Head(todo))).r, dir, Tail(todo))

\* one iteration of the replay loop
ReplayStep ==
    /\ startup.pc = "replay"
    /\ startup.todo # <<>>
    /\ LET res == ReplayEntry(reducer, HistoryEntry(files, Head(startup.todo)))
       IN /\ reducer' = res.r
          /\ outcome' = res.err
          /\ startup' = [startup EXCEPT !.todo = Tail(@), !.count = @ + 1,
                                        !.errors = IF res.err # "none" THEN @ + 1 ELSE @]
    /\ UNCHANGED <<files, clock, lock, procs, email_count, ingested>>

\* the loop is over: the application starts serving
StartupDone ==
    /\ startup.pc = "replay"
    /\ startup.todo = <<>>
    /\ email_count' = startup.count
    /\ startup' = [startup EXCEPT !.pc = "serving"]
    /\ UNCHANGED <<reducer, outcome, files, clock, lock, procs, ingested>>

----------------------------------------------------------------------------
(* The data directory found at startup *)

Header(from_email, timestamp) == <<FromLine(from_email), TimestampLine(timestamp), Dashes>>

InitialDirs ==
    { EmptyDict,
      \* a file the grammar rejects, then a legacy body-only file
      (SorterName(0, "alpha") :> Header("u1", 0) \o <<Bad>>)
        @@ (SorterName(0, "zeta") :> <<Hashtag("a"), Item("x", "t")>>),
      \* a file the reducer rejects, then a valid file
      (SorterName(0, "alpha") :> Header("u2", 0) \o <<Item("y", None)>>)
        @@ (SorterName(0, "zeta") :> Header("u1", 0) \o <<Hashtag("a"), Item("y", None)>>) }

Init ==
    /\ reducer = NewReducer
    /\ outcome = "none"
    /\ files \in InitialDirs
    /\ clock = 1
    /\ lock = [locked |-> FALSE, waiters |-> <<>>]
    /\ procs = [h \in Handlers |-> IdleFrame]
    /\ startup = [pc |-> "start", todo |-> <<>>, count |-> 0, errors |-> 0]
    /\ email_count = 0
    /\ ingested = 0

Next ==
    \/ StartupList
    \/ ReplayStep
    \/ StartupDone
    \/ \E h \in Handlers : \E email \in PostmarkInboundEmail : WebhookReceive(h, email)
    \/ \E h \in Handlers : Wake(h)
    \/ \E h \in Handlers : WebhookSave(h)
    \/ \E h \in Handlers : WebhookReduce(h)
    \/ \E h \in Handlers : QueryReceive(h)
    \/ \E h \in Handlers : QueryRead(h)
    \/ Tick

Spec == Init /\ [][Next]_vars

----------------------------------------------------------------------------
(* The handlers alone, after a startup that found an empty directory, with *)
(* a request text of each kind: empty, prose only, rejected by the         *)
(* grammar, and one that is accepted first and rejected by the reducer     *)
(* (ImmutableBody) when it is sent again                                   *)

GateBodies ==
    { <<>>,
      <<Prose, Dashes>>,
      <<Hashtag("a"), Bad>>,
      <<Prose, Hashtag("a"), Item("x", "t")>> }

GateEmails == [From : {"u1"}, Subject : Subjects, TextBody : GateBodies]

InitGate ==
    /\ reducer = NewReducer
    /\ outcome = "none"
    /\ files = EmptyDict
    /\ clock = 1
    /\ lock = [locked |-> FALSE, waiters |-> <<>>]
    /\ procs = [h \in Handlers |-> IdleFrame]
    /\ startup = [pc |-> "serving", todo |-> <<>>, count |-> 0, errors |-> 0]
    /\ email_count = 0
    /\ ingested = 0

NextGate ==
    \/ \E h \in Handlers : \E email \in GateEmails : WebhookReceive(h, email)
    \/ \E h \in Handlers : Wake(h)
    \/ \E h \in Handlers : WebhookSave(h)
    \/ \E h \in Handlers : WebhookReduce(h)
    \/ \E h \in Handlers : QueryReceive(h)
    \/ \E h \in Handlers : QueryRead(h)
    \/ Tick

SpecGate == InitGate /\ [][NextGate]_vars

----------------------------------------------------------------------------
(* The startup replay alone, over every directory of at most               *)
(* 2 * (MaxLogTs + 1) files with the contents below                        *)

LogContents ==
    { Header("u1", 0) \o <<Hashtag("a"), Item("x", "t")>>,          \* valid
      <<Hashtag("b"), Item("x", None)>>,                            \* valid, legacy body-only
      Header("u1", 0) \o <<Hashtag("a"), Bad>>,                     \* rejected by the grammar
      Header("u2", 0) \o <<Hashtag("a"), Item("x", "u")>>,          \* rejected when x exists
      Header("u2", 0) \o <<Prose>> }                                \* no statements

LogNames == {SorterName(ts, slug) : ts \in 0..MaxLogTs, slug \in {"alpha", "zeta"}}

LogDirs == UNION {[names -> LogContents] : names \in SUBSET LogNames}

InitStartup ==
    /\ reducer = NewReducer
    /\ outcome = "none"
    /\ files \in LogDirs
    /\ clock = MaxLogTs + 1
    /\ lock = [locked |-> FALSE, waiters |-> <<>>]
    /\ procs = [h \in Handlers |-> IdleFrame]
    /\ startup = [pc |-> "start", todo |-> <<>>, count |-> 0, errors |-> 0]
    /\ email_count = 0
    /\ ingested = 0

NextStartup == StartupList \/ ReplayStep \/ StartupDone

SpecStartup == InitStartup /\ [][NextStartup]_vars

----------------------------------------------------------------------------
(* The startup replay over a log whose entries exercise the reducer: every  *)
(* log of at most MaxLogTs + 1 entries with the texts below, one entry a    *)
(* millisecond, written by u1 and u2 in turn                                *)

HistoryTexts ==
    { \* two items under #a, one with a body, and an attribute
      <<Hashtag("a"), Item("x", "t"), Item("y", None), AttributeDecl(<<"p">>)>>,
      \* an item without hashtag
      <<Prose, Item("z", None)>>,
      \* a vote without attribute, on an unknown item, with a zero ratio
      <<Vote("z", "y", 0, 1, None)>>,
      \* a body for y, a body for x
      <<Hashtag("b"), Item("y", "u")>>,
      <<Hashtag("b"), Item("x", "u")>>,
      \* x under #b, twice
      <<Hashtag("b"), Item("x", None), Item("x", None)>>,
      \* a vote on an unknown item with a zero ratio, a vote with a zero ratio
      <<AttributeDecl(<<"p">>), Vote("z", "x", 0, 1, None)>>,
      <<AttributeDecl(<<"p">>), Vote("x", "y", 0, 1, "why")>>,
      \* a vote before and after the item it names
      <<Hashtag("a"), Item("w", None), AttributeDecl(<<"p">>),
        Vote("w", "z", 1, 1, None), Item("z", None)>>,
      <<Hashtag("a"), Item("w", None), Item("z", None), AttributeDecl(<<"p">>),
        Vote("w", "z", 1, 1, None)>>,
      \* votes under two attribute declarations
      <<AttributeDecl(<<"p", "q">>), Vote("x", "y", 1, 1, None), Vote("y", "x", 1, 2, None),
        AttributeDecl(<<"p">>), Vote("x", "y", 2, 1, "why")>> }

HistoryAuthor(ts) == IF ts % 2 = 0 THEN "u1" ELSE "u2"

HistoryLogs == UNION {[1..n -> HistoryTexts] : n \in 0..(MaxLogTs + 1)}

\* the directory that holds a log: entry k is "<k-1>+alpha.sorter"
HistoryDir(log) ==
    [f \in {SorterName(k - 1, "alpha") : k \in 1..Len(log)} |->
        Header(HistoryAuthor(f.ts), f.ts) \o log[f.ts + 1]]

InitHistory ==
    /\ reducer = NewReducer
    /\ outcome = "none"
    /\ files \in {HistoryDir(log) : log \in HistoryLogs}
    /\ clock = MaxLogTs + 1
    /\ lock = [locked |-> FALSE, waiters |-> <<>>]
    /\ procs = [h \in Handlers |-> IdleFrame]
    /\ startup = [pc |-> "start", todo |-> <<>>, count |-> 0, errors |-> 0]
    /\ email_count = 0
    /\ ingested = 0

SpecHistory == InitHistory /\ [][NextStartup]_vars

----------------------------------------------------------------------------
(* The log alone: save_email called with a sender, a subject and a body,   *)
(* at a clock that goes from 9 ms to 10 ms and on, so that the decimal     *)
(* timestamp gains a digit as it does from 9999999999999 ms on.  The       *)
(* arguments and the file name of the last call stay in procs[1].          *)

StorageBodies ==
    { <<Hashtag("a"), Item("x", "t")>>,
      <<Prose, Dashes, Prose>>,                                   \* a "---" line in the body
      <<FromLine("u2"), TimestampLine(0), Dashes, Hashtag("b")>>, \* header-like lines
      <<ProseCR, Hashtag("a")>> }                                 \* a line that ends in "\r\n"

StorageEmails == [From : {"u1", None}, Subject : Subjects, TextBody : StorageBodies]

SaveEmail(email) ==
    /\ ingested < MaxIngests
    /\ LET s == save_email(files, email.Subject, email.TextBody, email.From, clock)
       IN /\ files' = s.files
          /\ procs' = [procs EXCEPT ![1] = Frame("idle", "save_email", email, Document(<<>>),
                                                 FALSE, clock, s.filename, "none")]
    /\ ingested' = ingested + 1
    /\ UNCHANGED <<reducer, outcome, clock, lock, startup, email_count>>

StorageTick ==
    /\ clock < 9 + MaxTime
    /\ clock' = clock + 1
    /\ UNCHANGED <<reducer, outcome, files, lock, procs, startup, email_count, ingested>>

InitStorage ==
    /\ reducer = NewReducer
    /\ outcome = "none"
    /\ files \in {EmptyDict, SorterName(0, "zeta") :> <<Hashtag("b"), Item("x", None)>>}
    /\ clock = 9
    /\ lock = [locked |-> FALSE, waiters |-> <<>>]
    /\ procs = [h \in Handlers |-> IdleFrame]
    /\ startup = [pc |-> "serving", todo |-> <<>>, count |-> 0, errors |-> 0]
    /\ email_count = 0
    /\ ingested = 0

NextStorage == (\E email \in StorageEmails : SaveEmail(email)) \/ StorageTick

SpecStorage == InitStorage /\ [][NextStorage]_vars

----------------------------------------------------------------------------
(* parse_lines on texts that are written line by line: SpecParser.  A text *)
(* is the sequence of its units: a prose line, or a command line with the  *)
(* body that starts on it, in no, single or double braces.                 *)

MaxLines == 2       \* units of a text

\* the units a text is made of
Units ==
    LET ProseLine(chars) == [kind |-> "prose", head |-> "", braces |-> 0, body |-> chars]
        CommandLine(head, braces, body) ==
            [kind |-> "command", head |-> head, braces |-> braces, body |-> body]
    IN
    { CommandLine("#a", 0, <<>>),
      CommandLine("/x", 0, <<>>),
      CommandLine("/x>y", 0, <<>>),
      CommandLine("u@h.io", 0, <<>>),
      CommandLine("/x", 1, <<" ", "w", " ">>),
      CommandLine("/y", 1, <<"NL", "w", "NL", "/x", "NL">>),
      CommandLine("/y", 2, <<"NL", "w", "{", "NL">>),
      ProseLine(<<"w", " ", "w">>),
      ProseLine(<<"w", "{", "w", "}">>),
      ProseLine(<<"w", " ", "{">>),
      ProseLine(<<"{", "w">>) }

\* the characters of a unit
UnitChars(unit) ==
    LET open == [k \in 1..unit.braces |-> "{"]
        close == [k \in 1..unit.braces |-> "}"]
    IN IF unit.kind = "prose" THEN unit.body
       ELSE IF unit.braces = 0 THEN <<unit.head>>
       ELSE <<unit.head, " ">> \o open \o unit.body \o close

\* the characters of a text: its units, one after the other, each ended by
\* a newline
RECURSIVE TextChars(_)
TextChars(units) ==
    IF units = <<>> THEN <<>>
    ELSE UnitChars(Head(units)) \o <<"NL">> \o TextChars(Tail(units))

\* a caller hands a text to parse_lines and keeps the document or the error
ParseText(units) ==
    /\ ingested < MaxIngests
    /\ ingested' = ingested + 1
    /\ LET parsed == parse_lines_text(TextChars(units))
           email == [From |-> None, Subject |-> None, TextBody |-> units]
       IN procs' = [procs EXCEPT ![1] =
              Frame("done", "parse_lines", email, parsed.doc, has_dsl_commands(parsed.doc),
                    NoTs, NoFile, parsed.err)]
    /\ UNCHANGED <<reducer, outcome, files, clock, lock, startup, email_count>>

InitParser ==
    /\ reducer = NewReducer
    /\ outcome = "none"
    /\ files = EmptyDict
    /\ clock = 1
    /\ lock = [locked |-> FALSE, waiters |-> <<>>]
    /\ procs = [h \in Handlers |-> IdleFrame]
    /\ startup = [pc |-> "serving", todo |-> <<>>, count |-> 0, errors |-> 0]
    /\ email_count = 0
    /\ ingested = 0

NextParser == \E n \in 0..MaxLines : \E units \in [1..n -> Units] : ParseText(units)

SpecParser == InitParser /\ [][NextParser]_vars

----------------------------------------------------------------------------
(* The ranker (src/src/rank.py).  A float is the rational [num, den] in     *)
(* lowest terms.  Matrix and list indices start at 0 as in the code: a     *)
(* matrix is a function on pairs <<i, j>>, a list of items or scores a     *)
(* function on 0..n-1.  The returned list of tuples is a sequence of       *)
(* records [title, score, rank, component_id].                             *)

RECURSIVE GCD(_, _)
GCD(m, n) == IF n = 0 THEN m ELSE GCD(n, m % n)

LCM(m, n) == (m * n) \div GCD(m, n)

Ratio(num, den) == LET g == GCD(num, den) IN [num |-> num \div g, den |-> den \div g]

ScoreLess(s, t) == s.num * t.den < t.num * s.den

RECURSIVE SumOver(_, _)
SumOver(S, f) ==
    IF S = {} THEN 0 ELSE LET x == CHOOSE x \in S : TRUE IN f[x] + SumOver(S \ {x}, f)

RECURSIVE ProductOver(_, _)
ProductOver(S, f) ==
    IF S = {} THEN 1 ELSE LET x == CHOOSE x \in S : TRUE IN f[x] * ProductOver(S \ {x}, f)

RECURSIVE LCMOver(_)
LCMOver(S) ==
    IF S = {} THEN 1 ELSE LET x == CHOOSE x \in S : TRUE IN LCM(x, LCMOver(S \ {x}))

\* a set of numbers as ascending list
RECURSIVE Ascending(_)
Ascending(S) ==
    IF S = {} THEN <<>>
    ELSE LET m == CHOOSE x \in S : \A y \in S : x <= y
         IN <<m>> \o Ascending(S \ {m})

Min(a, b) == IF a <= b THEN a ELSE b

\* the titles in string order
Alphabet == <<"v", "w", "x", "y", "z">>
TitleRank(t) == CHOOSE k \in 1..Len(Alphabet) : Alphabet[k] = t

\* sorted(keys), and the index of each title in it
SortedTitles(S) ==
    [i \in 0..(Cardinality(S) - 1) |->
        CHOOSE t \in S : Cardinality({u \in S : TitleRank(u) < TitleRank(t)}) = i]
TitleToIdx(item_titles) ==
    [t \in {item_titles[i] : i \in DOMAIN item_titles} |->
        CHOOSE i \in DOMAIN item_titles : item_titles[i] = t]

\* np.zeros((n, n))
Zeros(n) == [p \in (0..(n - 1)) \X (0..(n - 1)) |-> 0]

\* the loop over filtered_votes that fills one direction of A only
RECURSIVE ComparisonMatrixOneWay(_, _, _)
ComparisonMatrixOneWay(A, votes, title_to_idx) ==
    IF votes = <<>> THEN A
    ELSE LET vote == Head(votes)
             i == title_to_idx[vote.item1]
             j == title_to_idx[vote.item2]
         IN ComparisonMatrixOneWay([A EXCEPT ![<<j, i>>] = @ + vote.ratio_left],
                                   Tail(votes), title_to_idx)

\* the loop over filtered_votes with ratio_left and ratio_right exchanged
RECURSIVE ComparisonMatrixSwapped(_, _, _)
ComparisonMatrixSwapped(A, votes, title_to_idx) ==
    IF votes = <<>> THEN A
    ELSE LET vote == Head(votes)
             i == title_to_idx[vote.item1]
             j == title_to_idx[vote.item2]
             A1 == [A EXCEPT ![<<j, i>>] = @ + vote.ratio_right]
             A2 == [A1 EXCEPT ![<<i, j>>] = @ + vote.ratio_left]
         IN ComparisonMatrixSwapped(A2, Tail(votes), title_to_idx)

\* the loop over filtered_votes that fills A
RECURSIVE ComparisonMatrix(_, _, _)
ComparisonMatrix(A, votes, title_to_idx) ==
    IF votes = <<>> THEN A
    ELSE LET vote == Head(votes)
             i == title_to_idx[vote.item1]
             j == title_to_idx[vote.item2]
             A1 == [A EXCEPT ![<<j, i>>] = @ + vote.ratio_left]
             A2 == [A1 EXCEPT ![<<i, j>>] = @ + vote.ratio_right]
         IN ComparisonMatrix(A2, Tail(votes), title_to_idx)

\* adj_list that takes an entry of 1 for no edge
AdjListAboveOne(A, n) ==
    [i \in 0..(n - 1) |-> Ascending({j \in 0..(n - 1) : A[<<i, j>>] > 1 /\ i # j})]

\* adj_list of tarjans_scc
AdjList(A, n) ==
    [i \in 0..(n - 1) |-> Ascending({j \in 0..(n - 1) : A[<<i, j>>] > 0 /\ i # j})]

\* the state of Tarjan's algorithm before the first strongconnect
TarjanInit ==
    [index_counter |-> 0, stack |-> <<>>, lowlink |-> EmptyDict, index |-> EmptyDict,
     on_stack |-> {}, components |-> <<>>]

\* the loop "while True" that puts the component first in the list
RECURSIVE PopComponentFirst(_, _, _)
PopComponentFirst(st, v, component) ==
    LET w == st.stack[Len(st.stack)]
        st1 == [st EXCEPT !.stack = SubSeq(@, 1, Len(@) - 1), !.on_stack = @ \ {w}]
        component1 == Append(component, w)
    IN IF w = v
       THEN [st1 EXCEPT !.components = <<component1>> \o @]
       ELSE PopComponentFirst(st1, v, component1)

\* the loop "while True" of strongconnect, which pops the component of v
RECURSIVE PopComponent(_, _, _)
PopComponent(st, v, component) ==
    LET w == st.stack[Len(st.stack)]
        st1 == [st EXCEPT !.stack = SubSeq(@, 1, Len(@) - 1), !.on_stack = @ \ {w}]
        component1 == Append(component, w)
    IN IF w = v
       THEN [st1 EXCEPT !.components = Append(@, component1)]
       ELSE PopComponent(st1, v, component1)

RECURSIVE strongconnect(_, _, _)
RECURSIVE Successors(_, _, _, _)
RECURSIVE SuccessorsNoBackEdge(_, _, _, _)

\* the loop "for w in adj_list[v]" that passes over a successor on the stack
SuccessorsNoBackEdge(adj_list, v, k, st) ==
    IF k > Len(adj_list[v]) THEN st
    ELSE LET w == adj_list[v][k]
         IN IF w \notin DOMAIN st.index
            THEN LET st1 == strongconnect(adj_list, w, st)
                 IN SuccessorsNoBackEdge(adj_list, v, k + 1,
                               [st1 EXCEPT !.lowlink[v] = Min(@, st1.lowlink[w])])
            ELSE SuccessorsNoBackEdge(adj_list, v, k + 1, st)

\* the loop "for w in adj_list[v]" of strongconnect from its k-th successor
Successors(adj_list, v, k, st) ==
    IF k > Len(adj_list[v]) THEN st
    ELSE LET w == adj_list[v][k]
         IN IF w \notin DOMAIN st.index
            THEN LET st1 == strongconnect(adj_list, w, st)
                 IN Successors(adj_list, v, k + 1,
                               [st1 EXCEPT !.lowlink[v] = Min(@, st1.lowlink[w])])
            ELSE IF w \in st.on_stack
            THEN Successors(adj_list, v, k + 1,
                            [st EXCEPT !.lowlink[v] = Min(@, st.index[w])])
            ELSE Successors(adj_list, v, k + 1, st)

strongconnect(adj_list, v, st) ==
    LET st1 == [st EXCEPT !.index = DictSet(@, v, st.index_counter),
                          !.lowlink = DictSet(@, v, st.index_counter),
                          !.index_counter = @ + 1,
                          !.stack = Append(@, v),
                          !.on_stack = @ \cup {v}]
        st2 == Successors(adj_list, v, 1, st1)
    IN IF st2.lowlink[v] = st2.index[v]
       THEN PopComponent(st2, v, <<>>)
       ELSE st2

\* the loop "for v in range(n)" of tarjans_scc from node v
RECURSIVE TarjanFrom(_, _, _, _)
TarjanFrom(adj_list, n, v, st) ==
    IF v >= n THEN st
    ELSE IF v \notin DOMAIN st.index
    THEN TarjanFrom(adj_list, n, v + 1, strongconnect(adj_list, v, st))
    ELSE TarjanFrom(adj_list, n, v + 1, st)

\* tarjans_scc: the list of components, each a list of node indices
tarjans_scc(A, n) == TarjanFrom(AdjList(A, n), n, 0, TarjanInit).components

\* par leads from node u to the root in at most k steps
RECURSIVE LeadsTo(_, _, _, _)
LeadsTo(par, u, root, k) ==
    IF u = root THEN TRUE
    ELSE IF k = 0 THEN FALSE
    ELSE LeadsTo(par, par[u], root, k - 1)

(* rank_centrality.  W, w_max and P are built as in the code, W on the     *)
(* common denominator D of its entries and P on the denominator w_max.     *)
(* The loop "scores = prev_scores @ P" starts from the uniform vector and  *)
(* returns when the vector has stopped moving (tol) or after max_iters, an *)
(* even number of steps.  What it returns is given in closed form: the     *)
(* stationary vector of P (by the tree formula: the weight of a node is    *)
(* the sum over the spanning trees directed to it of the product of their  *)
(* arcs) when P has a positive diagonal entry or an odd cycle; otherwise   *)
(* the vector alternates between the two sides of the graph for ever, and  *)
(* the even steps keep on each side the mass it started with, |side| / n,  *)
(* spread as the stationary vector spreads its half.                       *)
rank_centrality(A, n) ==
    LET nodes == 0..(n - 1)
        D == LCMOver({A[<<i, j>>] + A[<<j, i>>] : i \in nodes, j \in nodes} \ {0})
        W == [p \in nodes \X nodes |->
                 IF A[p] > 0 THEN (A[p] * D) \div (A[p] + A[<<p[2], p[1]>>]) ELSE 0]
        row == [i \in nodes |-> SumOver(nodes \ {i}, [j \in nodes |-> W[<<i, j>>]])]
        w_max == CHOOSE m \in {row[i] : i \in nodes} : \A i \in nodes : row[i] <= m
        P == [p \in nodes \X nodes |-> IF p[1] = p[2] THEN w_max - row[p[1]] ELSE W[p]]
        trees(i) ==
            {par \in [nodes \ {i} -> nodes] :
                \A u \in nodes \ {i} :
                    par[u] # u /\ P[<<u, par[u]>>] > 0 /\ LeadsTo(par, u, i, n)}
        weight == [i \in nodes |->
                      SumOver(trees(i),
                              [par \in trees(i) |->
                                  ProductOver(nodes \ {i},
                                              [u \in nodes \ {i} |-> P[<<u, par[u]>>]])])]
        total == SumOver(nodes, weight)
        crossing(X) ==
            \A i, j \in nodes : (i # j /\ P[<<i, j>>] > 0) => ((i \in X) # (j \in X))
        alternates == (\A i \in nodes : P[<<i, i>>] = 0) /\ \E X \in SUBSET nodes : crossing(X)
        side == CHOOSE X \in SUBSET nodes : crossing(X)
        mass(i) == IF i \in side THEN Cardinality(side) ELSE n - Cardinality(side)
    IN [i \in nodes |->
           IF alternates
           THEN Ratio(2 * mass(i) * weight[i], n * total)
           ELSE Ratio(weight[i], total)]

\* sorted(range(component_size), key=scores) without reverse=True
RECURSIVE SortedByScoreAscending(_, _)
SortedByScoreAscending(S, scores) ==
    IF S = {} THEN <<>>
    ELSE LET m == CHOOSE i \in S :
                      \A j \in S : /\ ~ScoreLess(scores[j], scores[i])
                                   /\ scores[j] = scores[i] => i <= j
         IN <<m>> \o SortedByScoreAscending(S \ {m}, scores)

\* sorted(range(component_size), key=scores, reverse=True): the sort is
\* stable, so equal scores stay in index order
RECURSIVE SortedByScore(_, _)
SortedByScore(S, scores) ==
    IF S = {} THEN <<>>
    ELSE LET m == CHOOSE i \in S :
                      \A j \in S : /\ ~ScoreLess(scores[i], scores[j])
                                   /\ scores[j] = scores[i] => i <= j
         IN <<m>> \o SortedByScore(S \ {m}, scores)

\* the tuple appended to results
Ranking(title, score, rank, component_id) ==
    [title |-> title, score |-> score, rank |-> rank, component_id |-> component_id]

\* the branch "if not filtered_votes" with the score of a singleton component
UnrankedSingletonsFullScore(item_titles) ==
    [k \in 1..Cardinality(DOMAIN item_titles) |->
        Ranking(item_titles[k - 1], Ratio(1, 1), 1, k - 1)]

\* the branch "if not filtered_votes" of compute_rankings_from_state
UnrankedSingletons(item_titles) ==
    [k \in 1..Cardinality(DOMAIN item_titles) |->
        Ranking(item_titles[k - 1], Ratio(1, Cardinality(DOMAIN item_titles)), 1, k - 1)]

\* the body of the loop over the components
RankComponent(component_indices, component_id, A, item_titles) ==
    IF Len(component_indices) = 1
    THEN <<Ranking(item_titles[component_indices[1]], Ratio(1, 1), 1, component_id)>>
    ELSE LET component_size == Len(component_indices)
             sub == 0..(component_size - 1)
             A_sub == [p \in sub \X sub |->
                          A[<<component_indices[p[1] + 1], component_indices[p[2] + 1]>>]]
             scores == rank_centrality(A_sub, component_size)
             sorted_component_indices == SortedByScore(sub, scores)
         IN [rank \in 1..component_size |->
                Ranking(item_titles[component_indices[sorted_component_indices[rank] + 1]],
                        scores[sorted_component_indices[rank]], rank, component_id)]

\* the loop "for component_id, component_indices in enumerate(components)"
RECURSIVE RankComponents(_, _, _, _)
RankComponents(components, c, A, item_titles) ==
    IF c > Len(components) THEN <<>>
    ELSE RankComponent(components[c], c - 1, A, item_titles)
         \o RankComponents(components, c + 1, A, item_titles)

\* compute_rankings_from_state that takes the votes of every attribute
compute_rankings_any_attribute(state, hashtag, attribute) ==
    LET filtered_items == {t \in DOMAIN state.items : hashtag \in state.items[t].hashtags}
        InSlice(vote) ==
            /\ vote.item1 \in filtered_items
            /\ vote.item2 \in filtered_items
        filtered_votes == SelectSeq(state.votes, InSlice)
        item_titles == SortedTitles(filtered_items)
        n == Cardinality(filtered_items)
        A == ComparisonMatrix(Zeros(n), filtered_votes, TitleToIdx(item_titles))
    IN IF DOMAIN state.items = {} THEN <<>>
       ELSE IF filtered_items = {} THEN <<>>
       ELSE IF filtered_votes = <<>> THEN UnrankedSingletons(item_titles)
       ELSE RankComponents(tarjans_scc(A, n), 1, A, item_titles)

compute_rankings_from_state(state, hashtag, attribute) ==
    LET filtered_items == {t \in DOMAIN state.items : hashtag \in state.items[t].hashtags}
        InSlice(vote) ==
            /\ vote.attribute = attribute
            /\ vote.item1 \in filtered_items
            /\ vote.item2 \in filtered_items
        filtered_votes == SelectSeq(state.votes, InSlice)
        item_titles == SortedTitles(filtered_items)
        n == Cardinality(filtered_items)
        A == ComparisonMatrix(Zeros(n), filtered_votes, TitleToIdx(item_titles))
    IN IF DOMAIN state.items = {} THEN <<>>
       ELSE IF filtered_items = {} THEN <<>>
       ELSE IF filtered_votes = <<>> THEN UnrankedSingletons(item_titles)
       ELSE RankComponents(tarjans_scc(A, n), 1, A, item_titles)

----------------------------------------------------------------------------
(* The grammar on the characters of one line (GRAMMAR and the transformer  *)
(* of src/src/parser.py).  A line is a sequence of characters without a    *)
(* newline, a brace, "@" or ".": the letters "a" and "b", "_", the digits,  *)
(* "-", " " and the sigils and comparison signs.  A name of the AST is the  *)
(* sequence of its characters.                                             *)

\* the value of a comparison: ratio_comparison, simple_greater, simple_less
\* and simple_equal, with simple_less read as simple_greater
comparison_less_as_greater(rule, left, right) ==
    CASE rule = "ratio_comparison" -> <<left, right>>
      [] rule = "simple_greater" -> <<2, 1>>
      [] rule = "simple_less" -> <<2, 1>>
      [] rule = "simple_equal" -> <<1, 1>>

\* the value of a comparison: ratio_comparison, simple_greater, simple_less
\* and simple_equal of the transformer
comparison(rule, left, right) ==
    CASE rule = "ratio_comparison" -> <<left, right>>
      [] rule = "simple_greater" -> <<2, 1>>
      [] rule = "simple_less" -> <<1, 2>>
      [] rule = "simple_equal" -> <<1, 1>>

\* the rule "statement" from position i of a line, as the LALR parser with
\* its contextual lexer reads it: the statement and the position after it.
\* White space between terminals is ignored; a terminal is the longest
\* match of its pattern.
statement(line, i) ==
    LET n == Len(line)
        DigitChars == <<"0", "1", "2", "3", "4", "5", "6", "7", "8", "9">>
        Numerals == {DigitChars[d] : d \in 1..10}
        run_end(j, S) == CHOOSE k \in j..(n + 1) :
                             /\ \A m \in j..(k - 1) : line[m] \in S
                             /\ k <= n => line[k] \notin S
        skip(j) == run_end(j, {" "})
        \* WORD: /[a-zA-Z0-9_]+/, the position after the match (j: no match)
        WORD(j) == run_end(j, {"a", "b", "_"} \cup Numerals)
        \* ITEM_NAME: /[a-zA-Z0-9_]+([-][a-zA-Z0-9_]+)*/
        RECURSIVE segments(_)
        segments(e) == IF e <= n /\ line[e] = "-" /\ WORD(e + 1) > e + 1
                       THEN segments(WORD(e + 1)) ELSE e
        ITEM_NAME(j) == IF WORD(j) = j THEN j ELSE segments(WORD(j))
        \* NUMBER: /[0-9]+/ and int() of its match
        NUMBER(j) == run_end(j, Numerals)
        RECURSIVE int(_)
        int(chars) ==
            IF chars = <<>> THEN 0
            ELSE 10 * int(SubSeq(chars, 1, Len(chars) - 1))
                 + (CHOOSE d \in 0..9 : DigitChars[d + 1] = chars[Len(chars)])
        str(j, e) == SubSeq(line, j, e - 1)
        at(j, c) == j <= n /\ line[j] = c
        failed == [err |-> "LarkError", statements |-> <<>>, end |-> i]
        parsed(st, e) == [err |-> "none", statements |-> <<st>>, end |-> e]
        from == skip(i)
        name == skip(from + 1)
        name_end == ITEM_NAME(name)
        \* vote: the second item, from the "/" expected at position j
        item2(j, ratio) ==
            LET t == skip(j + 1)
            IN IF at(j, "/") /\ ITEM_NAME(t) > t
               THEN parsed(Vote(str(name, name_end), str(t, ITEM_NAME(t)), ratio[1], ratio[2],
                                None),
                           ITEM_NAME(t))
               ELSE failed
        \* comparison, from position j after the first item
        ratio_comparison(j) ==
            LET colon == skip(NUMBER(j))
                right == skip(colon + 1)
            IN IF at(colon, ":") /\ NUMBER(right) > right
               THEN item2(skip(NUMBER(right)),
                          comparison("ratio_comparison", int(str(j, NUMBER(j))),
                                     int(str(right, NUMBER(right)))))
               ELSE failed
        after_item == skip(name_end)
        \* attribute_decl: attribute+
        RECURSIVE attributes(_, _)
        attributes(j, names) ==
            LET w == skip(j + 1)
                next == skip(WORD(w))
            IN IF WORD(w) = w THEN failed
               ELSE IF at(next, ":")
               THEN attributes(next, Append(names, str(w, WORD(w))))
               ELSE parsed(AttributeDecl(Append(names, str(w, WORD(w)))), next)
    IN IF from > n THEN [err |-> "none", statements |-> <<>>, end |-> from]
       ELSE IF at(from, "#")
       THEN IF name_end = name THEN failed
            ELSE parsed(Hashtag(str(name, name_end)), name_end)
       ELSE IF at(from, "/")
       THEN IF name_end = name THEN failed
            ELSE IF at(after_item, ">")
            THEN item2(skip(after_item + 1), comparison("simple_greater", 0, 0))
            ELSE IF at(after_item, "<")
            THEN item2(skip(after_item + 1), comparison("simple_less", 0, 0))
            ELSE IF at(after_item, "=")
            THEN item2(skip(after_item + 1), comparison("simple_equal", 0, 0))
            ELSE IF NUMBER(after_item) > after_item THEN ratio_comparison(after_item)
            ELSE parsed(Item(str(name, name_end), None), name_end)
       ELSE IF at(from, ":") THEN attributes(from, <<>>)
       ELSE failed

\* the rule "start" that takes statements one after the other on a line
start_many(line) ==
    LET RECURSIVE more(_, _)
        more(i, statements) ==
            LET s == statement(line, i)
            IN IF s.err # "none" THEN [err |-> "LarkError", doc |-> Document(<<>>)]
               ELSE IF s.statements = <<>> THEN [err |-> "none", doc |-> Document(statements)]
               ELSE more(s.end, statements \o s.statements)
    IN more(1, <<>>)

\* the rule "start" on a text of one line: a statement, or none, and then
\* the end of the text, as a newline has to come before another statement
start(line) ==
    LET s == statement(line, 1)
    IN IF s.err # "none" \/ \E k \in s.end..Len(line) : line[k] # " "
       THEN [err |-> "LarkError", doc |-> Document(<<>>)]
       ELSE [err |-> "none", doc |-> Document(s.statements)]

----------------------------------------------------------------------------
(* The functions of the ranker and of the grammar called on their own:     *)
(* SpecCalls.  A caller hands tarjans_scc a matrix, or the parser a line,  *)
(* once, and keeps what comes back.                                        *)

MaxNodes == 3       \* nodes of a graph

\* tarjans_scc(adjacency_matrix) called on a matrix of n nodes
CallTarjan(A, n) ==
    /\ procs[1].pc = "idle"
    /\ procs' = [procs EXCEPT ![1] =
           Frame("done", "tarjans_scc", [From |-> None, Subject |-> None, TextBody |-> A],
                 Document(tarjans_scc(A, n)), FALSE, NoTs, NoFile, "none")]
    /\ UNCHANGED <<reducer, outcome, files, clock, lock, startup, email_count, ingested>>

MaxOnLine == 3      \* statements written on one line

\* parser.parse(text) called on one line.  The line is written from its
\* pieces: a hashtag, an item, an attribute or a vote each, with the names
\* and numbers of the piece, the pieces a space apart.  A number stands a
\* space after the name before it, as a digit right after a name is one of
\* the characters of the name.
CallParse(pieces) ==
    LET DigitChars == <<"0", "1", "2", "3", "4", "5", "6", "7", "8", "9">>
        RECURSIVE str(_)
        str(n) == IF n < 10 THEN <<DigitChars[n + 1]>>
                  ELSE str(n \div 10) \o <<DigitChars[(n % 10) + 1]>>
        gap(piece) == IF piece.spaced THEN <<" ">> ELSE <<>>
        sign(piece) == IF piece.rule = "N:M"
                       THEN str(piece.left) \o gap(piece) \o <<":">> \o gap(piece)
                            \o str(piece.right)
                       ELSE <<piece.rule>>
        written(piece) ==
            CASE piece.kind = "hashtag" -> <<"#">> \o piece.name
              [] piece.kind = "item" -> <<"/">> \o piece.name
              [] piece.kind = "attribute" -> <<":">> \o piece.name
              [] piece.kind = "vote" -> <<"/">> \o piece.name
                                        \o (IF piece.rule = "N:M" THEN <<" ">> ELSE gap(piece))
                                        \o sign(piece) \o gap(piece) \o <<"/">> \o piece.name2
        RECURSIVE line(_)
        line(k) == IF k = 0 THEN <<>>
                   ELSE IF k = 1 THEN written(pieces[1])
                   ELSE line(k - 1) \o <<" ">> \o written(pieces[k])
        result == start(line(Len(pieces)))
    IN /\ procs[1].pc = "idle"
       /\ procs' = [procs EXCEPT ![1] =
              Frame("done", "parse", [From |-> None, Subject |-> None, TextBody |-> pieces],
                    result.doc, FALSE, NoTs, NoFile, result.err)]
       /\ UNCHANGED <<reducer, outcome, files, clock, lock, startup, email_count, ingested>>

NextCalls ==
    LET Names == {<<"a">>, <<"b", "_">>, <<"a", "-", "b">>, <<"a", "1", "-", "2">>}
        Piece(kind, name, rule, left, right, name2, spaced) ==
            [kind |-> kind, name |-> name, rule |-> rule, left |-> left, right |-> right,
             name2 |-> name2, spaced |-> spaced]
        Plain == {Piece(kind, name, "", 0, 0, <<>>, FALSE) :
                      kind \in {"hashtag", "item", "attribute"}, name \in Names}
        Signs == {Piece("vote", <<>>, rule, 0, 0, <<>>, FALSE) : rule \in {">", "<", "="}}
                 \cup {Piece("vote", <<>>, "N:M", left, right, <<>>, FALSE) :
                           left \in {0, 2, 10}, right \in {1, 3}}
        Votes == {[sign EXCEPT !.name = name, !.name2 = name2, !.spaced = spaced] :
                      sign \in Signs, name \in Names, name2 \in Names, spaced \in BOOLEAN}
        Short == {Piece("hashtag", <<"a">>, "", 0, 0, <<>>, FALSE),
                  Piece("item", <<"a">>, "", 0, 0, <<>>, FALSE),
                  Piece("item", <<"b", "_">>, "", 0, 0, <<>>, FALSE),
                  Piece("attribute", <<"a">>, "", 0, 0, <<>>, FALSE),
                  Piece("attribute", <<"b", "_">>, "", 0, 0, <<>>, FALSE),
                  Piece("vote", <<"a">>, ">", 0, 0, <<"b", "_">>, FALSE)}
    IN \/ /\ procs[1].pc = "idle"
          /\ \E n \in 0..MaxNodes :
                 \E A \in [(0..(n - 1)) \X (0..(n - 1)) -> {0, 1}] : CallTarjan(A, n)
       \/ /\ procs[1].pc = "idle"
          /\ \E piece \in Plain \cup Votes : CallParse(<<piece>>)
       \/ /\ procs[1].pc = "idle"
          /\ \E k \in 0..MaxOnLine : \E pieces \in [1..k -> Short] : CallParse(pieces)

SpecCalls == InitParser /\ [][NextCalls]_vars

----------------------------------------------------------------------------
(* The todo lists (src/src/todo): a list is a file of TODO_DIR, named by   *)
(* its list_id, that holds a header, the items and the criteria as the     *)
(* attribute, and then the votes of the AI, which are appended line by     *)
(* line.  The answer of the model is an input.  A file content is a        *)
(* sequence of lines as above; it always ends in a newline, so that        *)
(* append_vote never has one to add.                                       *)

\* create_todo_list; list_id is the fresh uuid.  The criteria becomes the
\* attribute line with "-" for every " ", a line the grammar rejects when
\* the criteria has a space in it (WORD has no "-").
create_todo_list(list_id, items, criteria, model) ==
    LET filename == [kind |-> "todo", ts |-> NoTs, slug |-> list_id]
        header == <<[type |-> "Criteria", value |-> criteria],
                    [type |-> "Model", value |-> model], Dashes>>
        RECURSIVE item_lines(_)
        item_lines(k) ==
            IF k = 0 THEN <<>>
            ELSE item_lines(k - 1)
                 \o (IF items[k] # "" THEN <<Item(slugify(items[k]), None)>> ELSE <<>>)
        body_lines == <<Hashtag(<<"todo", list_id>>), Prose>> \o item_lines(Len(items))
                      \o <<Prose,
                           IF criteria = "due date" THEN Bad ELSE AttributeDecl(<<criteria>>)>>
    IN /\ filename \notin DOMAIN files
       /\ files' = DictSet(files, filename, header \o body_lines)
       /\ UNCHANGED <<reducer, outcome, clock, lock, procs, startup, email_count, ingested>>

\* append_vote: the directory after the vote is appended
append_vote(dir, list_id, vote_dsl) ==
    LET filename == [kind |-> "todo", ts |-> NoTs, slug |-> list_id]
    IN [dir EXCEPT ![filename] = @ \o vote_dsl]

\* get_todo_state: the state of a fresh reducer after the body of the
\* file, and the criteria of its header; err is what parse_lines or
\* process_document raised, found is FALSE for (None, None)
get_todo_state(dir, list_id) ==
    LET filename == [kind |-> "todo", ts |-> NoTs, slug |-> list_id]
        lines == dir[filename]
        separator_idx == SeparatorIdx(lines, 1)
        criteria == HeaderValue(lines, IF separator_idx = 0 THEN Len(lines)
                                       ELSE separator_idx - 1, "Criteria", "importance")
        body == IF separator_idx # 0 THEN SubSeq(lines, separator_idx + 1, Len(lines))
                ELSE lines
        parsed == parse_lines(body)
        done == process_document(NewReducer, parsed.doc, NoTs, None, NoFile)
    IN IF filename \notin DOMAIN dir
       THEN [err |-> "none", found |-> FALSE, state |-> State, criteria |-> None]
       ELSE IF parsed.err # "none"
       THEN [err |-> parsed.err, found |-> FALSE, state |-> State, criteria |-> None]
       ELSE IF done.err # "none"
       THEN [err |-> done.err, found |-> FALSE, state |-> State, criteria |-> None]
       ELSE [err |-> "none", found |-> TRUE, state |-> done.r.state, criteria |-> criteria]

\* make_ai_vote from the answer of the model on: the answer is taken when
\* it parses and holds exactly one vote, of the two items; None otherwise
make_ai_vote(item1, item2, content) ==
    LET parsed == parse_lines(content)
        votes == SelectSeq(parsed.doc.statements, LAMBDA st : st.type = "Vote")
    IN [accepted |-> /\ parsed.err = "none"
                     /\ Len(votes) = 1
                     /\ {votes[1].item1, votes[1].item2} = {item1, item2},
        vote_dsl |-> content]

\* one round of the loop of ai_sorter_stream (and of run_ai_sorting): load
\* the list, take a pair of its items, ask for a vote, append it when
\* make_ai_vote takes it, load the list again.  The answers are: the first
\* item better, with a reason; the vote written from the second item; a
\* ratio of 0:1; a sentence and the vote; the first item with a body and
\* the vote; two votes; a vote against another item; a line that is no DSL.
ai_sorter_stream(list_id, item1, item2, answer) ==
    LET loaded == get_todo_state(files, list_id)
        content ==
            CASE answer = "better" -> <<Vote(item1, item2, 2, 1, "t")>>
              [] answer = "worse" -> <<Vote(item2, item1, 1, 2, None)>>
              [] answer = "zero" -> <<Vote(item1, item2, 0, 1, None)>>
              [] answer = "prose" -> <<Prose, Vote(item1, item2, 10, 1, None)>>
              [] answer = "body" -> <<Item(item1, "t"), Vote(item1, item2, 1, 1, None)>>
              [] answer = "twice" -> <<Vote(item1, item2, 2, 1, None),
                                       Vote(item1, item2, 2, 1, None)>>
              [] answer = "other" -> <<Vote(item1, "other", 2, 1, None)>>
              [] answer = "bad" -> <<Bad>>
        vote == make_ai_vote(item1, item2, content)
        dir == IF vote.accepted THEN append_vote(files, list_id, vote.vote_dsl) ELSE files
        new_state == get_todo_state(dir, list_id)
    IN /\ ingested < MaxIngests
       /\ [kind |-> "todo", ts |-> NoTs, slug |-> list_id] \in DOMAIN files
       /\ ingested' = ingested + 1
       /\ IF loaded.err # "none"
          THEN /\ outcome' = loaded.err
               /\ UNCHANGED files
          ELSE /\ item1 \in DOMAIN loaded.state.items
               /\ item2 \in DOMAIN loaded.state.items
               /\ item1 # item2
               /\ files' = dir
               /\ outcome' = IF ~vote.accepted THEN "Failed"
                             ELSE IF new_state.err # "none" THEN new_state.err
                             ELSE "voted"
       /\ UNCHANGED <<reducer, clock, lock, procs, startup, email_count>>

\* a list is made of two tasks, of two tasks and an empty line, or of one
\* task; a round picks any list and any two titles
SpecTodo ==
    InitParser /\
    [][\/ \E list_id \in {"l1", "l2"} :
              \E items \in {<<"Alpha", "Zeta">>, <<"Zeta", "", "Alpha">>, <<"Alpha">>} :
                  \E criteria \in {"importance", "due date"} :
                      create_todo_list(list_id, items, criteria, "m")
       \/ \E list_id \in {"l1", "l2"} :
              \E item1 \in {"alpha", "zeta"}, item2 \in {"alpha", "zeta"} :
                  \E answer \in {"better", "worse", "zero", "prose", "body", "twice", "other",
                                 "bad"} :
                      ai_sorter_stream(list_id, item1, item2, answer)]_vars

----------------------------------------------------------------------------
(* The index page (read_root of src/src/main.py): the statistics of the    *)
(* hashtags, read from the state of the reducer under the lock             *)

\* hashtag_stats that counts a vote for every hashtag of either item
hashtag_stats_either(state) ==
    LET NoStats == [items |-> 0, votes |-> 0, last_updated |-> NoTs]
        \* "if current_ts is None or timestamp > current_ts", on the strings
        Newer(ts, current_ts) ==
            ts # NoTs /\ (current_ts = NoTs \/ DigitsLess(Digits(current_ts), Digits(ts)))
        Count(stats, hashtag, field, ts) ==
            [stats EXCEPT ![hashtag] =
                [@ EXCEPT ![field] = @ + 1,
                          !.last_updated = IF Newer(ts, @) THEN ts ELSE @]]
        \* the loop over the items and their hashtags
        RECURSIVE ItemsLoop(_, _)
        ItemsLoop(stats, todo) ==
            IF todo = {} THEN stats
            ELSE LET p == CHOOSE q \in todo : TRUE
                     stats1 == IF p[2] \in DOMAIN stats THEN stats
                               ELSE DictSet(stats, p[2], NoStats)
                 IN ItemsLoop(Count(stats1, p[2], "items", state.items[p[1]].timestamp),
                              todo \ {p})
        \* the loop "for hashtag in shared_hashtags"
        RECURSIVE SharedLoop(_, _, _)
        SharedLoop(stats, shared_hashtags, ts) ==
            IF shared_hashtags = {} THEN stats
            ELSE LET hashtag == CHOOSE h \in shared_hashtags : TRUE
                 IN SharedLoop(IF hashtag \in DOMAIN stats
                               THEN Count(stats, hashtag, "votes", ts) ELSE stats,
                               shared_hashtags \ {hashtag}, ts)
        \* the loop over state.votes
        RECURSIVE VotesLoop(_, _)
        VotesLoop(stats, k) ==
            IF k > Len(state.votes) THEN [err |-> "none", hashtag_stats |-> stats]
            ELSE LET vote == state.votes[k]
                 IN IF vote.item1 \notin DOMAIN state.items
                       \/ vote.item2 \notin DOMAIN state.items
                    THEN [err |-> "KeyError", hashtag_stats |-> EmptyDict]
                    ELSE VotesLoop(SharedLoop(stats,
                                              state.items[vote.item1].hashtags
                                                  \cup state.items[vote.item2].hashtags,
                                              vote.timestamp),
                                   k + 1)
    IN VotesLoop(ItemsLoop(EmptyDict,
                           {<<t, h>> \in (DOMAIN state.items) \X
                                UNION {state.items[u].hashtags : u \in DOMAIN state.items} :
                                h \in state.items[t].hashtags}),
                 1)

\* hashtag_stats as read_root computes it; a KeyError ends the request
hashtag_stats(state) ==
    LET NoStats == [items |-> 0, votes |-> 0, last_updated |-> NoTs]
        \* "if current_ts is None or timestamp > current_ts", on the strings
        Newer(ts, current_ts) ==
            ts # NoTs /\ (current_ts = NoTs \/ DigitsLess(Digits(current_ts), Digits(ts)))
        Count(stats, hashtag, field, ts) ==
            [stats EXCEPT ![hashtag] =
                [@ EXCEPT ![field] = @ + 1,
                          !.last_updated = IF Newer(ts, @) THEN ts ELSE @]]
        \* the loop over the items and their hashtags
        RECURSIVE ItemsLoop(_, _)
        ItemsLoop(stats, todo) ==
            IF todo = {} THEN stats
            ELSE LET p == CHOOSE q \in todo : TRUE
                     stats1 == IF p[2] \in DOMAIN stats THEN stats
                               ELSE DictSet(stats, p[2], NoStats)
                 IN ItemsLoop(Count(stats1, p[2], "items", state.items[p[1]].timestamp),
                              todo \ {p})
        \* the loop "for hashtag in shared_hashtags"
        RECURSIVE SharedLoop(_, _, _)
        SharedLoop(stats, shared_hashtags, ts) ==
            IF shared_hashtags = {} THEN stats
            ELSE LET hashtag == CHOOSE h \in shared_hashtags : TRUE
                 IN SharedLoop(IF hashtag \in DOMAIN stats
                               THEN Count(stats, hashtag, "votes", ts) ELSE stats,
                               shared_hashtags \ {hashtag}, ts)
        \* the loop over state.votes
        RECURSIVE VotesLoop(_, _)
        VotesLoop(stats, k) ==
            IF k > Len(state.votes) THEN [err |-> "none", hashtag_stats |-> stats]
            ELSE LET vote == state.votes[k]
                 IN IF vote.item1 \notin DOMAIN state.items
                       \/ vote.item2 \notin DOMAIN state.items
                    THEN [err |-> "KeyError", hashtag_stats |-> EmptyDict]
                    ELSE VotesLoop(SharedLoop(stats,
                                              state.items[vote.item1].hashtags
                                                  \cap state.items[vote.item2].hashtags,
                                              vote.timestamp),
                                   k + 1)
    IN VotesLoop(ItemsLoop(EmptyDict,
                           {<<t, h>> \in (DOMAIN state.items) \X
                                UNION {state.items[u].hashtags : u \in DOMAIN state.items} :
                                h \in state.items[t].hashtags}),
                 1)

----------------------------------------------------------------------------
(* The reducer alone: process_document called on arbitrary documents *)

Statements ==
    { Hashtag("a"), Hashtag("b"),
      Item("x", "t"), Item("x", "u"), Item("x", None), Item("y", None),
      AttributeDecl(<<"p">>), AttributeDecl(<<"p", "q">>),
      Vote("x", "y", 1, 1, None), Vote("y", "x", 0, 1, None),
      Email("e@x.io") }

Documents == UNION {[1..n -> Statements] : n \in 0..MaxStmts}

ProcessDocument(doc, user_email) ==
    /\ clock <= MaxCalls
    /\ LET res == process_document(reducer, Document(doc), clock, user_email, NoFile)
       IN /\ reducer' = res.r
          /\ outcome' = res.err
    /\ clock' = clock + 1
    /\ UNCHANGED <<files, lock, procs, startup, email_count, ingested>>

\* a reducer that has processed one document: two items under #a
SeededReducer ==
    process_document(NewReducer,
                     Document(<<Hashtag("a"), Item("x", "t"), Item("y", None)>>),
                     0, "u1", NoFile).r

InitReducer ==
    /\ reducer \in {NewReducer, SeededReducer}
    /\ outcome = "none"
    /\ files = EmptyDict
    /\ clock = 1
    /\ lock = [locked |-> FALSE, waiters |-> <<>>]
    /\ procs = [h \in Handlers |-> IdleFrame]
    /\ startup = [pc |-> "serving", todo |-> <<>>, count |-> 0, errors |-> 0]
    /\ email_count = 0
    /\ ingested = 0

\* the later documents come from another author than the first
NextReducer ==
    \E doc \in Documents : \E user_email \in Users \ {"u1"} : ProcessDocument(doc, user_email)

SpecReducer == InitReducer /\ [][NextReducer]_vars

----------------------------------------------------------------------------
(* The ranker on the states of the reducer: four items under #a, one of    *)
(* them also under #b, a fifth item under #b only, and votes under :p and  *)
(* :q added one document at a time                                         *)

RankedItems ==
    <<Hashtag("a"), Item("v", None), Item("w", None), Item("x", None), Item("y", None),
      Hashtag("b"), Item("y", None), Item("z", None)>>

\* the items, and the items with two groups of two voted under :p
ItemsOnly == process_document(NewReducer, Document(RankedItems), 0, "u1", NoFile).r
TwoGroups ==
    process_document(NewReducer,
                     Document(RankedItems \o <<AttributeDecl(<<"p">>),
                                               Vote("v", "w", 2, 1, None),
                                               Vote("x", "y", 1, 3, None)>>),
                     0, "u1", NoFile).r

RankVotes ==
    { Vote("v", "w", 1, 1, None),     \* inside the first group
      Vote("w", "v", 3, 1, None),
      Vote("w", "x", 2, 1, None),     \* between the groups
      Vote("x", "w", 1, 1, None),
      Vote("y", "x", 1, 2, None),     \* inside the second group
      Vote("y", "z", 2, 1, None),     \* both under #b, z not under #a
      Vote("v", "z", 1, 1, None),     \* no hashtag in common
      Vote("x", "x", 1, 1, None) }    \* an item against itself

RankDocuments == {<<AttributeDecl(<<a>>), vote>> : a \in {"p", "q"}, vote \in RankVotes}

InitRank ==
    /\ reducer \in {ItemsOnly, TwoGroups}
    /\ outcome = "none"
    /\ files = EmptyDict
    /\ clock = 1
    /\ lock = [locked |-> FALSE, waiters |-> <<>>]
    /\ procs = [h \in Handlers |-> IdleFrame]
    /\ startup = [pc |-> "serving", todo |-> <<>>, count |-> 0, errors |-> 0]
    /\ email_count = 0
    /\ ingested = 0

NextRank == \E doc \in RankDocuments : ProcessDocument(doc, "u2")

SpecRank == InitRank /\ [][NextRank]_vars

----------------------------------------------------------------------------
(* The ranker on a hashtag of two items: y and z under #b, voted against   *)
(* each other in both directions under :p and :q, with a vote outside #b   *)
(* and a vote of y against itself                                          *)

PairVotes ==
    { Vote("y", "z", 10, 1, None),
      Vote("z", "y", 3, 1, None),
      Vote("y", "z", 1, 1, None),
      Vote("y", "z", 1, 3, None),
      Vote("z", "y", 1, 2, None),
      Vote("v", "w", 1, 1, None),     \* outside #b
      Vote("y", "y", 1, 1, None) }    \* an item against itself

PairDocuments == {<<AttributeDecl(<<a>>), vote>> : a \in {"p", "q"}, vote \in PairVotes}

InitPair ==
    /\ reducer = ItemsOnly
    /\ outcome = "none"
    /\ files = EmptyDict
    /\ clock = 1
    /\ lock = [locked |-> FALSE, waiters |-> <<>>]
    /\ procs = [h \in Handlers |-> IdleFrame]
    /\ startup = [pc |-> "serving", todo |-> <<>>, count |-> 0, errors |-> 0]
    /\ email_count = 0
    /\ ingested = 0

NextPair == \E doc \in PairDocuments : ProcessDocument(doc, "u2")

SpecPair == InitPair /\ [][NextPair]_vars

----------------------------------------------------------------------------
(* The ranker on votes under one attribute only *)

NextScale == \E vote \in RankVotes : ProcessDocument(<<AttributeDecl(<<"p">>), vote>>, "u2")

SpecScale == InitRank /\ [][NextScale]_vars

----------------------------------------------------------------------------
(* Claims about the reducer, checked under SpecReducer *)

Items == reducer.state.items
Votes == reducer.state.votes

\* C1: a process_document call that raises leaves state.items, state.votes
\* and state.emails as they were before the call, also when statements
\* before the failing one were valid.
C1_FailureLeavesStateUnchanged ==
    [][(reducer' # reducer /\ outcome' # "none") => reducer'.state = reducer.state]_vars

\* C4: after any sequence of process_document calls every vote names two
\* items of state.items, has both ratios above zero and an attribute.
C4_VotesWellFormed ==
    \A i \in 1..Len(Votes) :
        /\ Votes[i].item1 \in DOMAIN Items
        /\ Votes[i].item2 \in DOMAIN Items
        /\ Votes[i].ratio_left > 0
        /\ Votes[i].ratio_right > 0
        /\ Votes[i].attribute # None

\* a vote is recorded and the last call failed
C4_Witness == Len(Votes) > 0 /\ outcome = "ZeroRatio"

\* C5: after any sequence of process_document calls every item has at least
\* one hashtag.
C5_ItemsHaveHashtag ==
    \A t \in DOMAIN Items : \E g \in Items[t].hashtags : g # None

\* an item exists and the last call was an item without hashtag context
C5_Witness == DOMAIN Items # {} /\ outcome = "MissingHashtagContext"

\* C6: once an item has a non-empty body, no later process_document call
\* changes that body.
C6_BodyWriteOnce ==
    [][\A t \in DOMAIN Items :
          Items[t].body \notin {None, ""} =>
              /\ t \in DOMAIN reducer'.state.items
              /\ reducer'.state.items[t].body = Items[t].body]_vars

\* an item has a body and the last call tried to redeclare a body
C6_Witness ==
    /\ \E t \in DOMAIN Items : Items[t].body \notin {None, ""}
    /\ outcome = "ImmutableBody"

\* C11: over any sequence of process_document calls the state only grows:
\* no title leaves state.items, the hashtags of an item only gain members,
\* created_by and timestamp of an item keep the values of the submission
\* that declared it first, and the earlier state.votes is a prefix of the
\* later state.votes.
C11_StateOnlyGrows ==
    [][/\ \A t \in DOMAIN Items :
             /\ t \in DOMAIN reducer'.state.items
             /\ Items[t].hashtags \subseteq reducer'.state.items[t].hashtags
             /\ reducer'.state.items[t].created_by = Items[t].created_by
             /\ reducer'.state.items[t].timestamp = Items[t].timestamp
       /\ Len(Votes) <= Len(reducer'.state.votes)
       /\ SubSeq(reducer'.state.votes, 1, Len(Votes)) = Votes]_vars

\* the item that u1 declared at 0 under #a was declared again under #b by a
\* later submission, and a vote was recorded after that
C11_Witness ==
    /\ "x" \in DOMAIN Items
    /\ Items["x"].hashtags = {"a", "b"}
    /\ Items["x"].created_by = "u1"
    /\ Items["x"].timestamp = 0
    /\ Len(Votes) > 0
    /\ Votes[1].user_email = "u2"

----------------------------------------------------------------------------
(* Claims about ingest and replay, checked under Spec (C2, C3, C7), about   *)
(* the gate, checked under SpecGate (C8, C9), and about the startup        *)
(* replay, checked under SpecStartup (C10)                                 *)

\* no ingest is between its log append and the end of its reducer call
Quiescent == startup.pc = "serving" /\ \A h \in Handlers : procs[h].pc # "saved"

Replayed == ReplayAll(NewReducer, files, Sorted(SorterFiles(files)))

Rejected(h) ==
    /\ procs[h].pc = "done"
    /\ procs[h].kind = "webhook"
    /\ procs[h].has_dsl_commands
    /\ procs[h].parse_error_message # "none"

C8_GateExcludes ==
    \A h1, h2 \in Handlers :
        (h1 # h2 /\ procs[h1].pc = "saved") => procs[h2].pc \notin {"locked", "saved"}

\* an ingest has appended and not yet reduced while another handler waits
C8_Witness ==
    \E h1, h2 \in Handlers : procs[h1].pc = "saved" /\ procs[h2].pc = "wait"

\* the text parses to a document with statements
HasCommands(text) ==
    /\ parse_lines(text).err = "none"
    /\ Len(parse_lines(text).doc.statements) > 0

\* the .sorter files with their contents
SorterPart(dir) == [f \in SorterFiles(dir) |-> dir[f]]

\* C9: a live submission without statements, or one that fails to parse,
\* leaves state.items and state.votes unchanged and adds no .sorter file:
\* it never holds the gate, and only a submission with statements changes
\* the state or the log.
C9_NoCommandsNoChange ==
    [][/\ \A h \in Handlers :
             (procs'[h].kind = "webhook" /\ procs'[h].pc \in {"wait", "locked", "saved"})
                 => HasCommands(procs'[h].email.TextBody)
       /\ (startup.pc = "serving"
             /\ (reducer'.state # reducer.state \/ SorterPart(files') # SorterPart(files)))
            => \E h \in Handlers :
                   /\ procs[h].kind = "webhook"
                   /\ procs[h].pc \in {"locked", "saved"}
                   /\ HasCommands(procs[h].email.TextBody)]_vars

\* one ingest returned a parse error and another returned without commands
C9_Witness ==
    \E h1, h2 \in Handlers :
        /\ procs[h1].pc = "done" /\ procs[h1].kind = "webhook"
        /\ procs[h1].parse_error_message = "LarkError"
        /\ procs[h2].pc = "done" /\ procs[h2].kind = "webhook"
        /\ ~procs[h2].has_dsl_commands /\ procs[h2].parse_error_message = "none"

----------------------------------------------------------------------------
(* Claims about the statements of one document, checked under SpecHistory  *)
(* on the steps of the replay loop, where the document and its envelope    *)
(* are the entry at the head of startup.todo                               *)

\* the replay loop is about to take an entry
Replaying == startup.pc = "replay" /\ startup.todo # <<>>

\* the entry it takes, and the statements of its document
Entry == HistoryEntry(files, Head(startup.todo))
Doc == parse_lines(Entry.body).doc.statements

\* the statements that can raise
CanFail(s) == s.type \in {"Item", "Vote"}

\* position of the last statement of a type before position i, 0 when none
LastBefore(doc, i, type) ==
    LET S == {j \in 1..(i - 1) : doc[j].type = type}
    IN IF S = {} THEN 0 ELSE CHOOSE j \in S : \A k \in S : k <= j

\* no statement before position i can raise
FirstCanFail(doc, i) == \A j \in 1..(i - 1) : ~CanFail(doc[j])

\* the entry that the replay loop took last
LastEntry == HistoryEntry(files, Sorted(SorterFiles(files))[startup.count])

C13_ImmutableBodyOnlyOverBody ==
    [][(Replaying /\ startup' # startup) =>
          \A i \in 1..Len(Doc) :
              (/\ Doc[i].type = "Item"
               /\ Doc[i].body \notin {None, ""}
               /\ Doc[i].title \in DOMAIN Items
               /\ LastBefore(Doc, i, "Hashtag") # 0
               /\ \A j \in 1..Len(Doc) : CanFail(Doc[j]) => j = i) =>
                  IF Items[Doc[i].title].body \notin {None, ""}
                  THEN outcome' = "ImmutableBody"
                  ELSE /\ outcome' = "none"
                       /\ Doc[LastBefore(Doc, i, "Hashtag")].name
                              \in reducer'.state.items[Doc[i].title].hashtags]_vars


\* the hashtags in force at the Item statements of a document for title t
TagsFor(doc, t) ==
    {doc[LastBefore(doc, i, "Hashtag")].name :
        i \in {i \in 1..Len(doc) : doc[i].type = "Item" /\ doc[i].title = t}}

\* C14: a bare Item whose title exists, under a hashtag the item does not
\* carry yet, raises nothing, adds that hashtag to the hashtags of the item
\* and leaves its body, created_by and timestamp, the other items and the
\* votes as they were; the same statement under the same hashtag once more
\* changes nothing.
C14_BareRedeclarationAddsHashtag ==
    [][(/\ Replaying /\ startup' # startup
        /\ \A i \in 1..Len(Doc) :
              \/ Doc[i].type = "Hashtag"
              \/ /\ Doc[i].type = "Item"
                 /\ Doc[i].body = None
                 /\ Doc[i].title \in DOMAIN Items
                 /\ LastBefore(Doc, i, "Hashtag") # 0) =>
          /\ outcome' = "none"
          /\ reducer'.state.items =
                [t \in DOMAIN Items |->
                    [Items[t] EXCEPT !.hashtags = @ \cup TagsFor(Doc, t)]]
          /\ reducer'.state.votes = Votes
          /\ reducer'.state.emails = reducer.state.emails
          /\ (\A t \in DOMAIN Items : TagsFor(Doc, t) \subseteq Items[t].hashtags)
                => reducer'.state = reducer.state]_vars

\* x, declared under #a with a body by u1 at 0, was declared again bare
\* under #b, twice, by the second entry
C14_Witness ==
    /\ startup.pc = "replay"
    /\ startup.count = 2
    /\ LastEntry.body = <<Hashtag("b"), Item("x", None), Item("x", None)>>
    /\ outcome = "none"
    /\ "x" \in DOMAIN Items
    /\ Items["x"] = ItemRecord("x", "t", {"a", "b"}, "u1", 0)

\* the Vote statements of a document
VotePositions(doc) == {i \in 1..Len(doc) : doc[i].type = "Vote"}

\* the last name of the attribute declaration at position a
LastName(doc, a) == doc[a].names[Len(doc[a].names)]

DeclaredBefore(doc, i) == {doc[j].title : j \in {j \in 1..(i - 1) : doc[j].type = "Item"}}

\* the statements before position i are hashtags, attribute declarations
\* and bare items under a hashtag: none of them raises
BarePrefix(doc, i) ==
    \A j \in 1..(i - 1) :
        CanFail(doc[j]) =>
            /\ doc[j].type = "Item"
            /\ doc[j].body = None
            /\ LastBefore(doc, j, "Hashtag") # 0

\* C16: a vote can name only items that are in the state when the Vote
\* statement is processed: placed before the Item statement of its document
\* that declares one of its items it fails with UnknownItem, placed after
\* that Item statement, or in a later document, it is recorded.
C16_NoForwardReference ==
    [][(Replaying /\ startup' # startup) =>
          \A i \in VotePositions(Doc) :
              (/\ BarePrefix(Doc, i)
               /\ LastBefore(Doc, i, "Attributes") # 0
               /\ Doc[i].ratio_left # 0 /\ Doc[i].ratio_right # 0) =>
                  LET known == DOMAIN Items \cup DeclaredBefore(Doc, i)
                  IN IF Doc[i].item1 \in known /\ Doc[i].item2 \in known
                     THEN /\ Len(reducer'.state.votes) > Len(Votes)
                          /\ reducer'.state.votes[Len(Votes) + 1].item1 = Doc[i].item1
                          /\ reducer'.state.votes[Len(Votes) + 1].item2 = Doc[i].item2
                     ELSE /\ outcome' = "UnknownItem"
                          /\ reducer'.state.votes = Votes]_vars

\* the first entry votes on w and z before it declares z and failed; the
\* second declares z before the same vote, which is recorded
C16_Witness ==
    /\ startup.pc = "replay"
    /\ startup.count = 2
    /\ HistoryEntry(files, Sorted(SorterFiles(files))[1]).body =
          <<Hashtag("a"), Item("w", None), AttributeDecl(<<"p">>),
            Vote("w", "z", 1, 1, None), Item("z", None)>>
    /\ LastEntry.body =
          <<Hashtag("a"), Item("w", None), Item("z", None), AttributeDecl(<<"p">>),
            Vote("w", "z", 1, 1, None)>>
    /\ startup.errors = 1
    /\ outcome = "none"
    /\ Len(Votes) = 1

\* position of the k-th Vote statement of a document
KthVote(doc, k) ==
    CHOOSE i \in VotePositions(doc) : Cardinality({j \in VotePositions(doc) : j <= i}) = k

\* C17: every recorded vote carries the last name of the latest attribute
\* declaration before it in its own document; that attribute stays in force
\* for the votes that follow until another declaration replaces it.
C17_VoteCarriesLatestAttribute ==
    [][(Replaying /\ startup' # startup) =>
          \A k \in 1..(Len(reducer'.state.votes) - Len(Votes)) :
              /\ k <= Cardinality(VotePositions(Doc))
              /\ LET a == LastBefore(Doc, KthVote(Doc, k), "Attributes")
                 IN /\ a # 0
                    /\ reducer'.state.votes[Len(Votes) + k].attribute = LastName(Doc, a)]_vars

\* the second entry declares :p :q, votes twice, declares :p and votes again
C17_Witness ==
    /\ startup.pc = "replay"
    /\ startup.count = 2
    /\ Len(LastEntry.body) = 5
    /\ LastEntry.body[1] = AttributeDecl(<<"p", "q">>)
    /\ Len(Votes) = 3
    /\ Votes[1].attribute = "q"
    /\ Votes[2].attribute = "q"
    /\ Votes[3].attribute = "p"


----------------------------------------------------------------------------
(* Claims about the ranker, checked under SpecRank on the ranking of every *)
(* hashtag and attribute below in every state of the reducer               *)

QueryHashtags == {"a", "b", "c"}
QueryAttributes == {"p", "q"}

\* the items that carry a hashtag
Candidates(h) == {t \in DOMAIN Items : h \in Items[t].hashtags}

\* the positions in state.votes of the votes of a slice
SlicePositions(h, a) ==
    {k \in 1..Len(Votes) :
        /\ Votes[k].attribute = a
        /\ Votes[k].item1 \in Candidates(h)
        /\ Votes[k].item2 \in Candidates(h)}

RankingOf(h, a) == compute_rankings_from_state(reducer.state, h, a)

\* the component_id that a ranking gives a title
ComponentOf(res, t) == res[CHOOSE k \in 1..Len(res) : res[k].title = t].component_id

\* C18: in every ranking each candidate appears exactly once, the items of
\* one component_id are listed contiguously in descending score order, and
\* their ranks are 1..k for a component of k items.
C18_RankingWellFormed ==
    \A h \in QueryHashtags : \A a \in QueryAttributes :
        LET res == RankingOf(h, a)
        IN /\ Len(res) = Cardinality(Candidates(h))
           /\ {res[k].title : k \in 1..Len(res)} = Candidates(h)
           /\ \A i, k \in 1..Len(res) :
                  (i < k /\ res[i].component_id = res[k].component_id) =>
                      \A j \in i..k : res[j].component_id = res[i].component_id
           /\ \A i \in 1..(Len(res) - 1) :
                  res[i].component_id = res[i + 1].component_id =>
                      ~ScoreLess(res[i].score, res[i + 1].score)
           /\ \A k \in 1..Len(res) :
                  res[k].rank =
                      Cardinality({i \in 1..k : res[i].component_id = res[k].component_id})

\* #a under :p is one component of four items with different scores, and #b
\* under :p is two components
C18_Witness ==
    LET res == RankingOf("a", "p")
    IN /\ Len(res) = 4
       /\ res[4].component_id = res[1].component_id
       /\ \A i \in 1..3 : ScoreLess(res[i + 1].score, res[i].score)
       /\ Len(RankingOf("b", "p")) = 2
       /\ RankingOf("b", "p")[2].component_id = 1

\* the titles that a chain of votes links to one of S
RECURSIVE LinkedTo(_, _)
LinkedTo(S, pairs) ==
    LET more == S \cup {t \in UNION pairs : \E e \in pairs : t \in e /\ e \cap S # {}}
    IN IF more = S THEN S ELSE LinkedTo(more, pairs)

\* C19: two candidates have the same component_id exactly when a chain of
\* votes of the slice links them, a vote linking its two items whatever its
\* direction and ratio; one vote between two groups voted apart makes them
\* one component.
C19_ComponentsAreLinkedGroups ==
    \A h \in QueryHashtags : \A a \in QueryAttributes :
        LET res == RankingOf(h, a)
            pairs == {{Votes[k].item1, Votes[k].item2} : k \in SlicePositions(h, a)}
            component == [t \in Candidates(h) |-> ComponentOf(res, t)]
        IN \A t1 \in Candidates(h) :
               LET linked == LinkedTo({t1}, pairs)
               IN \A t2 \in Candidates(h) :
                      (component[t1] = component[t2]) <=> (t2 \in linked)

\* v against w and x against y were voted first, then w against x: the four
\* items are one component
C19_Witness ==
    /\ Len(Votes) = 3
    /\ {Votes[1].item1, Votes[1].item2} = {"v", "w"}
    /\ {Votes[2].item1, Votes[2].item2} = {"x", "y"}
    /\ {Votes[3].item1, Votes[3].item2} = {"w", "x"}
    /\ Votes[3].attribute = "p"
    /\ \A t \in {"w", "x", "y"} :
           ComponentOf(RankingOf("a", "p"), t) = ComponentOf(RankingOf("a", "p"), "v")

SliceOnly(h, a) ==
    [items |-> [t \in Candidates(h) |-> Items[t]],
     votes |-> [k \in 1..Cardinality(SlicePositions(h, a)) |->
                  Votes[Ascending(SlicePositions(h, a))[k]]],
     emails |-> <<>>]

\* C21: the ranking for (h, a) depends only on the items carrying h and on
\* the votes with attribute a whose two items both carry h: it is the
\* ranking of the state that holds those items and those votes alone, so a
\* vote under another attribute or with an item that does not carry h
\* leaves it unchanged.
C21_RankingDependsOnSliceOnly ==
    \A h \in QueryHashtags : \A a \in QueryAttributes :
        RankingOf(h, a) = compute_rankings_from_state(SliceOnly(h, a), h, a)

\* v against w was voted 2:1 under :p; then the same pair was voted 1:1
\* under :q and y against z, which does not carry #a, under :p: the ranking
\* of (#a, :p) is the one of the first vote alone
C21_Witness ==
    /\ Len(Votes) = 4
    /\ Votes[3].attribute = "q" /\ {Votes[3].item1, Votes[3].item2} = {"v", "w"}
    /\ Votes[4].attribute = "p" /\ {Votes[4].item1, Votes[4].item2} = {"y", "z"}
    /\ SlicePositions("a", "p") = {1, 2}
    /\ LET res == RankingOf("a", "p")
           score(t) == res[CHOOSE k \in 1..Len(res) : res[k].title = t].score
       IN /\ ComponentOf(res, "v") = ComponentOf(res, "w")
          /\ ComponentOf(res, "v") # ComponentOf(res, "x")
          /\ score("v") = Ratio(2, 3)
          /\ score("y") = Ratio(3, 4)

\* C23: within a component, items whose scores are equal are ordered by
\* ascending title.
C23_TiesByAscendingTitle ==
    \A h \in QueryHashtags : \A a \in QueryAttributes :
        LET res == RankingOf(h, a)
        IN \A i, k \in 1..Len(res) :
               (/\ i < k
                /\ res[i].component_id = res[k].component_id
                /\ res[i].score = res[k].score) =>
                   TitleRank(res[i].title) < TitleRank(res[k].title)

\* the sum of the scores at a set of positions of a ranking is 1
SumsToOne(res, K) ==
    LET den == LCMOver({res[k].score.den : k \in K})
    IN SumOver(K, [k \in K |-> res[k].score.num * (den \div res[k].score.den)]) = den

\* C24: in every ranking the scores of the items sharing a component_id sum
\* to 1, for slices with votes and for slices without votes.
C24_ComponentScoresSumToOne ==
    \A h \in QueryHashtags : \A a \in QueryAttributes :
        LET res == RankingOf(h, a)
        IN \A i \in 1..Len(res) :
               SumsToOne(res, {k \in 1..Len(res) : res[k].component_id = res[i].component_id})

----------------------------------------------------------------------------
(* Claims about the ranking of two items, checked under SpecPair *)

\* the weight that the votes of a slice give a title: ratio_left of the
\* votes that name it first, ratio_right of the votes that name it second
Favour(h, a, t) ==
    SumOver(SlicePositions(h, a),
            [k \in SlicePositions(h, a) |->
                IF Votes[k].item1 = t THEN Votes[k].ratio_left ELSE Votes[k].ratio_right])

\* C22: when a hashtag has exactly two items and every vote of the slice is
\* between them, the item with the larger summed weight in its favour gets
\* rank 1 and the other rank 2, both in component 0.
C22_PairRankedByWeight ==
    \A h \in QueryHashtags : \A a \in QueryAttributes :
        \A t1, t2 \in Candidates(h) :
            (/\ Candidates(h) = {t1, t2}
             /\ t1 # t2
             /\ SlicePositions(h, a) # {}
             /\ \A k \in SlicePositions(h, a) : {Votes[k].item1, Votes[k].item2} = {t1, t2}
             /\ Favour(h, a, t1) > Favour(h, a, t2)) =>
                LET res == RankingOf(h, a)
                IN /\ Len(res) = 2
                   /\ res[1].title = t1 /\ res[1].rank = 1 /\ res[1].component_id = 0
                   /\ res[2].title = t2 /\ res[2].rank = 2 /\ res[2].component_id = 0
                   /\ ScoreLess(res[2].score, res[1].score)

\* under :p y was voted 10:1 over z and is first with 10/11; under :q the
\* vote "z 3:1 y" gives 3 for z and 1 for y, and z is first
C22_Witness ==
    /\ Len(Votes) = 2
    /\ Favour("b", "p", "y") = 10 /\ Favour("b", "p", "z") = 1
    /\ RankingOf("b", "p")[1].title = "y"
    /\ RankingOf("b", "p")[1].score = Ratio(10, 11)
    /\ Favour("b", "q", "z") = 3 /\ Favour("b", "q", "y") = 1
    /\ RankingOf("b", "q")[1].title = "z"
    /\ RankingOf("b", "q")[2].rank = 2

----------------------------------------------------------------------------
(* Claims about the ranking of scaled votes, checked under SpecScale *)

Scales == {2, 3}

\* the state with ratio_left and ratio_right of every vote multiplied by c
Scaled(state, c) ==
    [state EXCEPT !.votes =
        [k \in 1..Len(state.votes) |->
            [state.votes[k] EXCEPT !.ratio_left = c * @, !.ratio_right = c * @]]]

\* the order, the ranks and the component ids of a ranking
Order(res) ==
    [k \in 1..Len(res) |->
        [title |-> res[k].title, rank |-> res[k].rank, component_id |-> res[k].component_id]]

\* C25: multiplying ratio_left and ratio_right of every vote by the same
\* positive integer leaves the ranking of every (hashtag, attribute)
\* unchanged: same item order, same ranks and same component ids.
C25_ScaleInvariant ==
    \A h \in QueryHashtags : \A a \in QueryAttributes : \A c \in Scales :
        Order(compute_rankings_from_state(Scaled(reducer.state, c), h, a))
            = Order(RankingOf(h, a))

\* three votes link the four items of #a into one component with four
\* different scores, the same after every ratio is doubled
C25_Witness ==
    /\ Len(Votes) = 3
    /\ LET res == RankingOf("a", "p")
           twice == compute_rankings_from_state(Scaled(reducer.state, 2), "a", "p")
       IN /\ Len(res) = 4
          /\ res[4].component_id = res[1].component_id
          /\ \A i \in 1..3 : ScoreLess(res[i + 1].score, res[i].score)
          /\ twice = res
          /\ Scaled(reducer.state, 2).votes[3].ratio_left = 2 * Votes[3].ratio_left

----------------------------------------------------------------------------
(* Claims about the log, checked under SpecStorage *)

\* the file names asked of get_email: names of the data directory, a debug
\* file, "../<name>", "../data/<name>", and absolute paths
Requests ==
    LET names == {SorterName(ts, slug) : ts \in {0, 9, 10}, slug \in {"alpha", "zeta"}}
    IN {<<f>> : f \in names \cup {DebugName(9, "u1")}}
       \cup {<<DotDot, f>> : f \in names}
       \cup {<<DotDot, DirName("data"), f>> : f \in names}
       \cup {Cwd \o <<f>> : f \in names}

\* the path that a file name stands for lies in the data directory
InDataDir(filename) ==
    LET target == Resolved(IF Head(filename).kind = "root" THEN filename
                           ELSE DATA_DIR \o filename, Cwd)
    IN /\ Len(target) > Len(Cwd \o DATA_DIR)
       /\ SubSeq(target, 1, Len(Cwd \o DATA_DIR)) = Cwd \o DATA_DIR

\* C26: get_email returns not-found for every file name that, resolved
\* against the data directory, lies outside it, and for every file name
\* that does not end in ".sorter"; it never returns the content of a file
\* outside the data directory.
C26_GetStaysInDataDir ==
    \A filename \in Requests :
        (~InDataDir(filename) \/ filename[Len(filename)].kind # "sorter") =>
            ~get_email(files, filename).found

\* C27: save_email never replaces an existing log entry: every append adds
\* one .sorter file, and the body of every earlier submission is still
\* returned by replay.
C27_SaveNeverReplaces ==
    [][ingested' = ingested + 1 =>
          /\ Cardinality(SorterFiles(files')) = Cardinality(SorterFiles(files)) + 1
          /\ \A f \in SorterFiles(files) :
                 /\ f \in SorterFiles(files')
                 /\ HistoryEntry(files', f).body = HistoryEntry(files, f).body]_vars

\* C28: reading back a file written by save_email, through get_email or
\* stream_history, returns exactly the body, the sender and the timestamp
\* that were saved, also when the body holds "---" lines or header-like
\* lines; a file with no "---" line is returned whole as the body, with no
\* sender and no timestamp.
C28_SaveReadRoundTrip ==
    /\ procs[1].kind = "save_email" =>
           LET saved == procs[1]
               got == get_email(files, <<saved.filename>>)
               entry == HistoryEntry(files, saved.filename)
           IN /\ got.found
              /\ got.body = saved.email.TextBody
              /\ got.from_email = saved.email.From
              /\ got.timestamp = saved.current_timestamp
              /\ entry.body = saved.email.TextBody
              /\ entry.from_email = saved.email.From
              /\ entry.timestamp = saved.current_timestamp
    /\ \A f \in SorterFiles(files) :
           SeparatorIdx(files[f], 1) = 0 =>
               /\ HistoryEntry(files, f).body = files[f]
               /\ HistoryEntry(files, f).from_email = None
               /\ HistoryEntry(files, f).timestamp = NoTs

\* C29: stream_history yields the log entries in string order of their
\* file names, list_emails yields them in exactly the reverse order, and
\* the string order of the file names agrees with the numeric order of the
\* millisecond timestamps (ties broken by slug), so replay is oldest-first.
C29_HistoryOldestFirst ==
    LET history == Sorted(SorterFiles(files))
        listed == list_emails(files)
        n == Len(history)
    IN /\ \A i, j \in 1..n : i < j => NameLess(history[i], history[j])
       /\ Len(listed) = n
       /\ \A k \in 1..n : listed[k].filename = history[n + 1 - k]
       /\ \A i, j \in 1..n :
              i < j =>
                  \/ history[i].ts < history[j].ts
                  \/ /\ history[i].ts = history[j].ts
                     /\ SlugRank(history[i].slug) < SlugRank(history[j].slug)

----------------------------------------------------------------------------
(* Claims about parse_lines, checked under SpecParser *)

\* the statements that the command lines of a text write, in their order,
\* each with its whole body
RECURSIVE Written(_)
Written(units) ==
    IF units = <<>> THEN <<>>
    ELSE (IF Head(units).kind = "command"
          THEN <<Node(Head(units).head, Head(units).braces > 0,
                      IF Head(units).braces > 0 THEN strip(Head(units).body) ELSE <<>>)>>
          ELSE <<>>)
         \o Written(Tail(units))

\* C30: parse_lines gives exactly the statements of the command lines of a
\* text: a prose line outside any body gives no statement and no parse
\* error, and a body that starts on a command line is kept whole, also with
\* an unbalanced brace inside double braces.
C30_OnlyCommandLinesParsed ==
    procs[1].kind = "parse_lines" =>
        /\ procs[1].parse_error_message = "none"
        /\ procs[1].doc = Document(Written(procs[1].email.TextBody))

----------------------------------------------------------------------------
(* Claims about scores and votes between other items, checked under        *)
(* SpecRank                                                                *)

\* C39: the score of a candidate that takes part in no vote of a slice is
\* the same before and after a vote between two other items is recorded.
C39_UnvotedScoreUnaffected ==
    [][\A h \in QueryHashtags : \A a \in QueryAttributes :
           LET before == compute_rankings_from_state(reducer.state, h, a)
               after == compute_rankings_from_state(reducer'.state, h, a)
               Voted(t) == \E k \in 1..Len(reducer'.state.votes) :
                               /\ reducer'.state.votes[k].attribute = a
                               /\ reducer'.state.votes[k].item1 \in Candidates(h)
                               /\ reducer'.state.votes[k].item2 \in Candidates(h)
                               /\ t \in {reducer'.state.votes[k].item1,
                                         reducer'.state.votes[k].item2}
           IN \A i \in 1..Len(before) : \A k \in 1..Len(after) :
                  before[i].title = after[k].title /\ ~Voted(after[k].title)
                      => before[i].score = after[k].score]_vars

----------------------------------------------------------------------------
(* Claims about BlockMasker, checked under SpecParser on the text that was *)
(* handed to parse_lines                                                   *)

\* C36: masking the code fences, then the double braces, then the single
\* braces of a text and unmasking the result gives the text back, also when
\* an opening marker has no closing marker: nothing is dropped or doubled.
C36_MaskUnmaskIdentity ==
    procs[1].kind = "parse_lines" =>
        LET text == TextChars(procs[1].email.TextBody)
            code == mask(EmptyDict, text, <<"FENCE">>, <<"FENCE">>)
            double == mask(code.replacements, code.text, <<"{", "{">>, <<"}", "}">>)
            single == mask(double.replacements, double.text, <<"{">>, <<"}">>)
        IN unmask(single.replacements, single.text) = text

\* C37: a line that holds an email address gives an Email statement when
\* the text goes through parse_lines (and the reducer then adds the address
\* to the emails of the state once).
C37_EmailLineParsed ==
    procs[1].kind = "parse_lines" /\ procs[1].parse_error_message = "none" =>
        \A k \in 1..Len(procs[1].email.TextBody) :
            procs[1].email.TextBody[k].head = "u@h.io" =>
                \E i \in 1..Len(procs[1].doc.statements) :
                    procs[1].doc.statements[i].head = "u@h.io"

----------------------------------------------------------------------------
(* Claims about the index page, checked under SpecRank on the statistics   *)
(* of every state of the reducer                                           *)

----------------------------------------------------------------------------
(* Claims about tarjans_scc, checked under SpecCalls on the matrix that    *)
(* was handed over and the components that came back                       *)

Matrix == procs[1].email.TextBody
Components == procs[1].doc.statements
Nodes == {p[1] : p \in DOMAIN Matrix}
Edges == {p \in DOMAIN Matrix : Matrix[p] > 0 /\ p[1] # p[2]}

\* the pairs (u, v) with a path of one or more edges from u to v
RECURSIVE Paths(_)
Paths(R) ==
    LET R1 == R \cup {p \in Nodes \X Nodes :
                         \E v \in Nodes : <<p[1], v>> \in R /\ <<v, p[2]>> \in R}
    IN IF R1 = R THEN R ELSE Paths(R1)

\* the position in the list of the component that holds a node
ComponentAt(v) ==
    CHOOSE c \in 1..Len(Components) : \E k \in 1..Len(Components[c]) : Components[c][k] = v

\* C34: the components are a partition of the nodes 0..n-1; two distinct
\* nodes are in the same component exactly when each can be reached from
\* the other along edges (u, v) with A[u][v] > 0 and u # v; the diagonal of
\* the matrix has no effect on the result.
C34_ComponentsAreMutualReachability ==
    procs[1].kind = "tarjans_scc" =>
        LET reach == Paths(Edges)
        IN
        /\ Nodes = 0..(Cardinality(Nodes) - 1)
        /\ \A v \in Nodes :
               Cardinality({ck \in (1..Len(Components)) \X Nodes :
                               /\ ck[2] + 1 <= Len(Components[ck[1]])
                               /\ Components[ck[1]][ck[2] + 1] = v}) = 1
        /\ \A c \in 1..Len(Components) :
               /\ Components[c] # <<>>
               /\ \A k \in 1..Len(Components[c]) : Components[c][k] \in Nodes
        /\ \A u \in Nodes : \A v \in Nodes \ {u} :
               ComponentAt(u) = ComponentAt(v)
                   <=> <<u, v>> \in reach /\ <<v, u>> \in reach
        /\ tarjans_scc([p \in DOMAIN Matrix |-> IF p[1] = p[2] THEN 0 ELSE Matrix[p]],
                       Cardinality(Nodes)) = Components

\* a cycle 0 -> 1 -> 2 -> 0 is one component, with a self-loop on node 1
C34_Witness ==
    /\ procs[1].kind = "tarjans_scc"
    /\ Cardinality(Nodes) = 3
    /\ Edges = {<<0, 1>>, <<1, 2>>, <<2, 0>>}
    /\ Matrix[<<1, 1>>] = 1
    /\ Len(Components) = 1

\* C35: the components come in reverse topological order: when an edge
\* leads from a node of a component X to a node of another component Y,
\* Y is before X in the list.
C35_ReverseTopologicalOrder ==
    procs[1].kind = "tarjans_scc" =>
        \A p \in Edges :
            ComponentAt(p[1]) # ComponentAt(p[2]) => ComponentAt(p[2]) < ComponentAt(p[1])

\* the edges 0 -> 1 and 0 -> 2 and 2 -> 1: the components are 1, 2, 0
C35_Witness ==
    /\ procs[1].kind = "tarjans_scc"
    /\ Edges = {<<0, 1>>, <<0, 2>>, <<2, 1>>}
    /\ Components = <<<<1>>, <<2>>, <<0>>>>

----------------------------------------------------------------------------
(* Claims about the grammar, checked under SpecCalls on the pieces the     *)
(* line was written from and the document that came back                   *)

Pieces == procs[1].email.TextBody
ParsedStatements == procs[1].doc.statements
ParseReturned == procs[1].pc = "done" /\ procs[1].kind = "parse"

\* C33: a vote written with ">" parses to the ratios (2,1), with "<" to
\* (1,2), with "=" to (1,1) and with "N:M" to (N,M); item1 is the item on
\* the left and item2 the item on the right.
C33_VoteRatios ==
    (ParseReturned /\ Len(Pieces) = 1 /\ Pieces[1].kind = "vote") =>
        LET piece == Pieces[1]
            ratio == CASE piece.rule = ">" -> <<2, 1>>
                       [] piece.rule = "<" -> <<1, 2>>
                       [] piece.rule = "=" -> <<1, 1>>
                       [] piece.rule = "N:M" -> <<piece.left, piece.right>>
        IN /\ procs[1].parse_error_message = "none"
           /\ Len(ParsedStatements) = 1
           /\ ParsedStatements[1].type = "Vote"
           /\ ParsedStatements[1].item1 = piece.name
           /\ ParsedStatements[1].item2 = piece.name2
           /\ <<ParsedStatements[1].ratio_left, ParsedStatements[1].ratio_right>> = ratio

\* "/a-b < /b_" came back as a vote of a-b against b_ with the ratios (1,2)
C33_Witness ==
    /\ ParseReturned
    /\ Len(Pieces) = 1
    /\ Pieces[1].kind = "vote"
    /\ Pieces[1].rule = "<"
    /\ Pieces[1].spaced
    /\ ParsedStatements = <<Vote(<<"a", "-", "b">>, <<"b", "_">>, 1, 2, None)>>

\* C32: an attribute declaration parses to an attribute of the name that
\* was written, a name of hyphen-joined segments (":a-b") included.
C32_HyphenAttribute ==
    (ParseReturned /\ Len(Pieces) = 1 /\ Pieces[1].kind = "attribute") =>
        /\ procs[1].parse_error_message = "none"
        /\ ParsedStatements = <<AttributeDecl(<<Pieces[1].name>>)>>

----------------------------------------------------------------------------
(* Claims about the todo lists, checked under SpecTodo                     *)

\* C40: a vote that make_ai_vote accepted and append_vote appended leaves
\* the list loadable: get_todo_state still returns a state, and that state
\* has exactly one more vote than the state before the append.
C40_AcceptedVoteKeepsListLoadable ==
    [][\A list_id \in {"l1", "l2"} :
           LET filename == [kind |-> "todo", ts |-> NoTs, slug |-> list_id]
               before == get_todo_state(files, list_id)
               after == get_todo_state(files', list_id)
           IN (filename \in DOMAIN files /\ files'[filename] # files[filename]) =>
                  /\ after.found
                  /\ Len(after.state.votes) = Len(before.state.votes) + 1]_vars

====
